---- MODULE Spec2Model ----
(***************************************************************************)
(* Model of the VCT dashboard's CSV-to-SQLite import pipeline:             *)
(*   scripts/import_to_sqlite.py   (VCTDataImporter, the full import)      *)
(*   scripts/import_large_files.py (LargeFileImporter, the batch import)   *)
(*                                                                         *)
(* A Python str is modelled as a sequence of one-character strings, so     *)
(* that the regular-expression substitutions, strip(), lower(), int() and  *)
(* float() are computed character by character.                            *)
(***************************************************************************)
EXTENDS Integers, Sequences, FiniteSets, TLC

(***************************************************************************)
(* Characters and elementary str operations.                               *)
(***************************************************************************)
LowerSeq == << "a","b","c","d","e","f","g","h","i","j","k","l","m",
               "n","o","p","q","r","s","t","u","v","w","x","y","z" >>
UpperSeq == << "A","B","C","D","E","F","G","H","I","J","K","L","M",
               "N","O","P","Q","R","S","T","U","V","W","X","Y","Z" >>
DigitSeq == << "0","1","2","3","4","5","6","7","8","9" >>

Range(f) == { f[i] : i \in DOMAIN f }

LowerChars == Range(LowerSeq)
UpperChars == Range(UpperSeq)
DigitChars == Range(DigitSeq)
\* the characters str.strip() removes (those of them the inputs use)
Whitespace == { " ", "\t" }

\* str.lower() on one character
LowerChar(c) ==
    IF c \in UpperChars
    THEN LowerSeq[CHOOSE i \in DOMAIN UpperSeq : UpperSeq[i] = c]
    ELSE c

\* str.lower()
Lower(s) == [i \in DOMAIN s |-> LowerChar(s[i])]

RECURSIVE LStrip(_, _)
LStrip(s, chars) ==
    IF s # << >> /\ Head(s) \in chars THEN LStrip(Tail(s), chars) ELSE s

RECURSIVE RStrip(_, _)
RStrip(s, chars) ==
    IF s # << >> /\ s[Len(s)] \in chars
    THEN RStrip(SubSeq(s, 1, Len(s) - 1), chars)
    ELSE s

\* str.strip(chars); str.strip() is Strip(s, Whitespace)
Strip(s, chars) == RStrip(LStrip(s, chars), chars)

\* re.sub(r'[^a-zA-Z0-9_]', '_', s)
SubNonWord(s) ==
    [i \in DOMAIN s |->
        IF s[i] \in LowerChars \cup UpperChars \cup DigitChars \cup {"_"}
        THEN s[i] ELSE "_"]

\* re.sub(r'_+', '_', s)
RECURSIVE CollapseUnderscores(_)
CollapseUnderscores(s) ==
    IF Len(s) <= 1 THEN s
    ELSE IF s[1] = "_" /\ s[2] = "_" THEN CollapseUnderscores(Tail(s))
    ELSE << s[1] >> \o CollapseUnderscores(Tail(s))

\* str(n) for a natural number n
RECURSIVE IntToStr(_)
IntToStr(n) ==
    IF n < 10 THEN << DigitSeq[n + 1] >>
    ELSE IntToStr(n \div 10) \o << DigitSeq[(n % 10) + 1] >>

ColPrefix == << "c","o","l","_" >>
UnnamedColumn == << "u","n","n","a","m","e","d","_","c","o","l","u","m","n" >>

(***************************************************************************)
(* VCTDataImporter.sanitize_column_name (import_to_sqlite.py 61-75).       *)
(***************************************************************************)
sanitize_column_name_NoDigitGuard(column_name) ==
    LET s3 == Strip(CollapseUnderscores(SubNonWord(Strip(column_name, Whitespace))), {"_"})
    IN  Lower(IF s3 = << >> THEN UnnamedColumn ELSE s3)

sanitize_column_name(column_name) ==
    LET s1 == SubNonWord(Strip(column_name, Whitespace))
        s2 == CollapseUnderscores(s1)
        s3 == Strip(s2, {"_"})
        s4 == IF s3 # << >> /\ s3[1] \in DigitChars THEN ColPrefix \o s3 ELSE s3
        s5 == IF s4 = << >> THEN UnnamedColumn ELSE s4
    IN  Lower(s5)

(***************************************************************************)
(* The duplicate-name loop of import_csv_file (import_to_sqlite.py         *)
(* 185-195) and import_csv_in_batches (import_large_files.py 207-217):     *)
(* seen_cols is the dict of the loop, new_cols the list it builds.         *)
(***************************************************************************)
RECURSIVE DedupLoop(_, _, _)
DedupLoop(cols, seen_cols, new_cols) ==
    IF cols = << >> THEN new_cols
    ELSE LET col == Head(cols)
         IN  IF col \in DOMAIN seen_cols
             THEN LET n == seen_cols[col] + 1
                  IN  DedupLoop(Tail(cols),
                                [seen_cols EXCEPT ![col] = n],
                                Append(new_cols, col \o << "_" >> \o IntToStr(n)))
             ELSE DedupLoop(Tail(cols),
                            [c \in DOMAIN seen_cols \cup {col} |->
                                IF c = col THEN 0 ELSE seen_cols[c]],
                            Append(new_cols, col))

\* the loop with the counter started at 1: the k-th occurrence gets suffix k
dedup_columns_CountFromOne(cols) ==
    [i \in DOMAIN cols |->
        LET k == Cardinality({ j \in 1..i : cols[j] = cols[i] })
        IN  IF k = 1 THEN cols[i] ELSE cols[i] \o << "_" >> \o IntToStr(k)]

\* the loop with the suffix written after a dot, as pandas names duplicates
dedup_columns_DotSuffix(cols) ==
    [i \in DOMAIN cols |->
        LET k == Cardinality({ j \in 1..(i - 1) : cols[j] = cols[i] })
        IN  IF k = 0 THEN cols[i] ELSE cols[i] \o << "." >> \o IntToStr(k)]

dedup_columns(cols) == DedupLoop(cols, << >>, << >>)

\* df.columns after lines 183-195: sanitise every header, then de-duplicate
sanitized_columns(headers) ==
    dedup_columns([i \in DOMAIN headers |-> sanitize_column_name(headers[i])])

(***************************************************************************)
(* generate_table_name (import_to_sqlite.py 77-93, the same text in        *)
(* import_large_files.py 115-130).  A path is the sequence of its parts.   *)
(***************************************************************************)
\* position of the last occurrence of c in s, 0 when there is none
LastIndexOf(s, c) ==
    IF \E i \in DOMAIN s : s[i] = c
    THEN CHOOSE i \in DOMAIN s : s[i] = c /\ \A j \in (i + 1)..Len(s) : s[j] # c
    ELSE 0

\* PurePath.stem: the name without its last suffix; a dot that begins or
\* ends the name starts no suffix
stem(name) ==
    LET i == LastIndexOf(name, ".")
    IN  IF 1 < i /\ i < Len(name) THEN SubSeq(name, 1, i - 1) ELSE name

\* csv_path.relative_to(data_dir), for a path under data_dir
relative_to(csv_path, data_dir) == SubSeq(csv_path, Len(data_dir) + 1, Len(csv_path))

\* '_'.join(strs)
RECURSIVE JoinUnderscore(_)
JoinUnderscore(strs) ==
    IF strs = << >> THEN << >>
    ELSE IF Len(strs) = 1 THEN strs[1]
    ELSE strs[1] \o << "_" >> \o JoinUnderscore(Tail(strs))

\* the name made of the file name alone, the folders left out
generate_table_name_NoFolders(csv_path, data_dir) ==
    Lower(Strip(CollapseUnderscores(SubNonWord(stem(csv_path[Len(csv_path)]))), {"_"}))

generate_table_name(csv_path, data_dir) ==
    LET relative_path == relative_to(csv_path, data_dir)
        parts      == SubSeq(relative_path, 1, Len(relative_path) - 1)
        filename   == stem(csv_path[Len(csv_path)])
        table_name == IF parts # << >> THEN JoinUnderscore(Append(parts, filename))
                      ELSE filename
    IN  Lower(Strip(CollapseUnderscores(SubNonWord(table_name)), {"_"}))

(***************************************************************************)
(* load_csv (utils.py 71-98): the table name looked up for a list of path  *)
(* parts.                                                                  *)
(***************************************************************************)
DotCsv == << ".","c","s","v" >>

\* s.startswith(sub)
StartsWith(s, sub) == Len(sub) <= Len(s) /\ SubSeq(s, 1, Len(sub)) = sub

\* s.replace(sub, ""): every occurrence of sub, found from the left, removed
RECURSIVE RemoveAll(_, _)
RemoveAll(s, sub) ==
    IF s = << >> THEN << >>
    ELSE IF StartsWith(s, sub) THEN RemoveAll(SubSeq(s, Len(sub) + 1, Len(s)), sub)
    ELSE << s[1] >> \o RemoveAll(Tail(s), sub)

\* table_name = "_".join(path_parts).replace(".csv", "").lower()
load_csv_table_name(path_parts) ==
    Lower(RemoveAll(JoinUnderscore(path_parts), DotCsv))

\* 'overview.csv', 'vct_2024', 'matches'
Overview == << "o","v","e","r","v","i","e","w",".","c","s","v" >>
Vct2024 == << "v","c","t","_","2","0","2","4" >>
Matches == << "m","a","t","c","h","e","s" >>

(***************************************************************************)
(* Python's int(str) and float(str), as far as they decide "parses":       *)
(* surrounding whitespace is ignored, one sign is allowed, digits may be   *)
(* grouped by single underscores; float also takes a fraction, an exponent *)
(* and the words inf, infinity and nan in any case.                        *)
(***************************************************************************)
\* a digit string with optional single underscores between digits
DigitPart(s) ==
    /\ s # << >>
    /\ s[1] \in DigitChars
    /\ s[Len(s)] \in DigitChars
    /\ \A i \in DOMAIN s : s[i] \in DigitChars \cup {"_"}
    /\ \A i \in 1..(Len(s) - 1) : ~(s[i] = "_" /\ s[i + 1] = "_")

DropSign(s) == IF s # << >> /\ s[1] \in {"+", "-"} THEN Tail(s) ELSE s

\* position of the first occurrence of c in s, 0 when there is none
IndexOf(s, c) ==
    IF \E i \in DOMAIN s : s[i] = c
    THEN CHOOSE i \in DOMAIN s : s[i] = c /\ \A j \in 1..(i - 1) : s[j] # c
    ELSE 0

\* int(str_val) does not raise ValueError
ParsesAsInt(str_val) == DigitPart(DropSign(Strip(str_val, Whitespace)))

FloatWords == { << "i","n","f" >>, << "i","n","f","i","n","i","t","y" >>, << "n","a","n" >> }

Mantissa(m) ==
    LET dot == IndexOf(m, ".")
        ip  == SubSeq(m, 1, dot - 1)
        fp  == SubSeq(m, dot + 1, Len(m))
    IN  IF dot = 0 THEN DigitPart(m)
        ELSE /\ ip = << >> \/ DigitPart(ip)
             /\ fp = << >> \/ DigitPart(fp)
             /\ ~(ip = << >> /\ fp = << >>)

\* float(str_val) does not raise ValueError
ParsesAsFloat(str_val) ==
    LET t == Lower(DropSign(Strip(str_val, Whitespace)))
        e == IndexOf(t, "e")
    IN  \/ t \in FloatWords
        \/ /\ e = 0
           /\ Mantissa(t)
        \/ /\ e > 0
           /\ Mantissa(SubSeq(t, 1, e - 1))
           /\ DigitPart(DropSign(SubSeq(t, e + 1, Len(t))))

(***************************************************************************)
(* VCTDataImporter.infer_column_type (import_to_sqlite.py 95-130).         *)
(* A value is a str, or None written NoneValue.                            *)
(***************************************************************************)
NoneValue == << "None" >>
SampleSize == 100

\* line 98: `v is not None and str(v).strip() != ''`
NotNoneNorBlank(v) == v # NoneValue /\ Strip(v, Whitespace) # << >>

\* line 98: the values that are not None and not blank
NonNullValues(values) == SelectSeq(values, NotNoneNorBlank)

\* non_null_values[:100]
Sampled(non_null_values) ==
    SubSeq(non_null_values, 1,
           IF Len(non_null_values) < SampleSize THEN Len(non_null_values) ELSE SampleSize)

\* the least element of a non-empty set of numbers
Min(S) == CHOOSE k \in S : \A m \in S : k <= m

\* the for loop of lines 107-123 from position i on, entered with the two
\* flags; stop_early is the break of lines 122-123.  all_integers is cleared
\* by the first value int() rejects and all_floats by the first value
\* float() rejects, so the loop breaks at the later of the two positions
\* and otherwise runs to the end of the sample.
ScanLoop(sample, i, all_integers, all_floats, stop_early) ==
    LET rest       == i..Len(sample)
        not_ints   == { k \in rest : ~ParsesAsInt(Strip(sample[k], Whitespace)) }
        not_floats == { k \in rest : ~ParsesAsFloat(Strip(sample[k], Whitespace)) }
        int_ends   == IF ~all_integers THEN i - 1
                      ELSE IF not_ints = {} THEN Len(sample) + 1 ELSE Min(not_ints)
        float_ends == IF ~all_floats THEN i - 1
                      ELSE IF not_floats = {} THEN Len(sample) + 1 ELSE Min(not_floats)
        both_end   == IF int_ends > float_ends THEN int_ends ELSE float_ends
        last       == IF stop_early /\ both_end \in rest THEN both_end
                      ELSE IF stop_early /\ both_end < i /\ rest # {} THEN i
                      ELSE Len(sample)
    IN  [all_integers |-> all_integers /\ int_ends > last,
         all_floats   |-> all_floats /\ float_ends > last,
         scanned      |-> IF last < i - 1 THEN i - 1 ELSE last]

TypeOfFlags(flags) ==
    IF flags.all_integers THEN "INTEGER"
    ELSE IF flags.all_floats THEN "REAL"
    ELSE "TEXT"

\* the function with the float check left out: whatever is not an integer column is REAL
infer_column_type_NoFloatCheck(values) ==
    LET non_null_values == NonNullValues(values)
    IN  IF non_null_values = << >> THEN "TEXT"
        ELSE IF \A i \in DOMAIN Sampled(non_null_values) :
                    ParsesAsInt(Strip(Sampled(non_null_values)[i], Whitespace))
             THEN "INTEGER" ELSE "REAL"

infer_column_type(values) ==
    LET non_null_values == NonNullValues(values)
    IN  IF non_null_values = << >> THEN "TEXT"
        ELSE TypeOfFlags(ScanLoop(Sampled(non_null_values), 1, TRUE, TRUE, TRUE))

(***************************************************************************)
(* LargeFileImporter.infer_column_type (import_large_files.py 132-156).    *)
(* The series is a column of the frame read_csv returns: a missing field   *)
(* is NaN, written NoneValue, and every other value is written by its      *)
(* literal in the file (a number of a numeric column by its digits).       *)
(***************************************************************************)
DigitValue(c) == (CHOOSE i \in DOMAIN DigitSeq : DigitSeq[i] = c) - 1

\* the number a digit string denotes
RECURSIVE StrToNat(_)
StrToNat(s) ==
    IF s = << >> THEN 0
    ELSE 10 * StrToNat(SubSeq(s, 1, Len(s) - 1)) + DigitValue(s[Len(s)])

RECURSIVE Pow10(_)
Pow10(n) == IF n = 0 THEN 1 ELSE 10 * Pow10(n - 1)

\* pd.notna(x)
notna(x) == x # NoneValue

\* series.dropna()
dropna(series) == SelectSeq(series, notna)

\* series.head(n)
head(series, n) == SubSeq(series, 1, IF Len(series) < n THEN Len(series) ELSE n)

\* pd.to_numeric converts the value: the literals of float(), without the
\* digit-grouping underscores that only Python's own parser accepts
to_numeric_converts(x) == ParsesAsFloat(x) /\ \A i \in DOMAIN x : x[i] # "_"

\* pd.to_numeric(series) returns (raises ValueError on the first value it
\* cannot convert, wherever it is in the series)
to_numeric(series) == \A i \in DOMAIN series : to_numeric_converts(series[i])

\* float(x).is_integer(), for a value pd.to_numeric converts
is_integer(x) ==
    LET t     == Lower(DropSign(Strip(x, Whitespace)))
        e     == IndexOf(t, "e")
        m     == IF e = 0 THEN t ELSE SubSeq(t, 1, e - 1)
        ex    == IF e = 0 THEN << >> ELSE SubSeq(t, e + 1, Len(t))
        exp   == IF ex = << >> THEN 0
                 ELSE (IF ex[1] = "-" THEN -1 ELSE 1) * StrToNat(DropSign(ex))
        dot   == IndexOf(m, ".")
        ip    == IF dot = 0 THEN m ELSE SubSeq(m, 1, dot - 1)
        fp    == IF dot = 0 THEN << >> ELSE SubSeq(m, dot + 1, Len(m))
        digits == StrToNat(ip \o fp)
        shift == exp - Len(fp)
    IN  /\ t \notin FloatWords
        /\ digits = 0 \/ shift >= 0 \/ digits % Pow10(-shift) = 0

Large_infer_column_type(series) ==
    LET non_null_series == dropna(series)
        sample == head(non_null_series, SampleSize)
    IN  IF Len(non_null_series) = 0 THEN "TEXT"
        ELSE IF to_numeric(non_null_series)
             THEN IF \A i \in DOMAIN sample : notna(sample[i]) => is_integer(sample[i])
                  THEN "INTEGER" ELSE "REAL"
             ELSE "TEXT"

(***************************************************************************)
(* The import commands as a state machine.                                 *)
(*                                                                         *)
(* Bounds of the model.  BatchSize is the batch_size constructor argument  *)
(* (1000 by default, 500 in main) and SampleRows the nrows=1000 of the     *)
(* sample read, both scaled down by the same factor; NumFiles is the       *)
(* number of source files of the directory; MaxRuns the number of command  *)
(* runs.                                                                   *)
(***************************************************************************)
NumFiles == 2
MaxRuns == 2
BatchSize == 2
SampleRows == 4

\* `if chunk_num % 10 == 0` (import_large_files.py 244 and 261)
CommitEvery == 10

FileIds == 1..NumFiles

(***************************************************************************)
(* A source file, as far as the importers can tell files apart:            *)
(*   exists    csv_path.exists()                                           *)
(*   readable  pd.read_csv raises nothing but UnicodeDecodeError           *)
(*   rows      the number of well-formed data rows (malformed lines are    *)
(*             skipped by on_bad_lines='skip' and never seen)              *)
(*   cols      the number of header columns                                *)
(*   bad_row   the first data row holding a byte that is not UTF-8, or 0   *)
(*   fail_call the to_sql call on this file that the store rejects         *)
(*             (sqlite3.OperationalError), counted per pass, or 0          *)
(* The directory does not change between runs, so these are fixed by Init. *)
(***************************************************************************)
File(exists, readable, rows, bad_row, fail_call) ==
    [exists |-> exists, readable |-> readable, rows |-> rows, cols |-> 2,
     bad_row |-> bad_row, fail_call |-> fail_call]

FileKinds ==
    { File(TRUE,  TRUE,  BatchSize + 1, 0, 0),                 \* small, clean
      File(TRUE,  TRUE,  CommitEvery * BatchSize + 1, 0, 0),   \* more than 10 windows
      File(TRUE,  TRUE,  0, 0, 0),                             \* header only
      File(TRUE,  FALSE, 0, 0, 0),                             \* cannot be read
      File(FALSE, FALSE, 0, 0, 0),                             \* listed but absent
      File(TRUE,  TRUE,  BatchSize + 1, BatchSize + 1, 0),     \* Latin-1 byte in window 2
      File(TRUE,  TRUE,  BatchSize + 1, 0, 1),                 \* first write rejected
      File(TRUE,  TRUE,  BatchSize + 1, 0, 2) }                \* second write rejected

(***************************************************************************)
(* The paths of the files.  self.data_dir is Path("data"); the file at     *)
(* position f of LargeFileImporter.large_files is the overview file of     *)
(* season f.  A directory gives every file id its path, in ascending path  *)
(* order: either the listed files, or two other files in place of the      *)
(* first two.                                                              *)
(***************************************************************************)
DataDir == << << "d","a","t","a" >> >>

\* data/vct_<2020+f>/matches/overview.csv
ListedPath(f) ==
    DataDir \o << << "v","c","t","_" >> \o IntToStr(2020 + f), Matches, Overview >>

\* data/a/b_c.csv and data/a_b/c.csv
OtherPath(f) ==
    IF f = 1 THEN DataDir \o << << "a" >>, << "b","_","c",".","c","s","v" >> >>
    ELSE DataDir \o << << "a","_","b" >>, << "c",".","c","s","v" >> >>

Directories ==
    [listed |-> [f \in FileIds |-> ListedPath(f)],
     other  |-> [f \in FileIds |-> IF f <= 2 THEN OtherPath(f) ELSE ListedPath(f)]]

\* the catalogue of the store: the table named SlotNames[i] is kept at slot i.
\* The names are those generate_table_name gives the paths of the
\* Directories: vct_<2020+i>_matches_overview for ListedPath(i), and a_b_c
\* for both data/a/b_c.csv and data/a_b/c.csv.
TableSlots == 1..(NumFiles + 1)
SlotNames ==
    [i \in TableSlots |->
        IF i \in FileIds
        THEN << "v","c","t","_" >> \o IntToStr(2020 + i) \o << "_" >> \o Matches
                 \o << "_","o","v","e","r","v","i","e","w" >>
        ELSE << "a","_","b","_","c" >>]

\* the slot of a table name; no other name is ever looked for
Slot(name) == CHOOSE i \in TableSlots : SlotNames[i] = name

\* str comparison is by code point: the characters of the paths in that order
CodePointOrder ==
    << " ", "!", "-", "." >> \o DigitSeq \o UpperSeq \o << "_" >> \o LowerSeq
CodePoint(c) == CHOOSE i \in DOMAIN CodePointOrder : CodePointOrder[i] = c

\* a < b for two sequences compared item by item, as Python compares str
\* with str and list with list; ItemLess(x, y) compares two items
SeqLess(a, b, ItemLess(_, _)) ==
    \/ /\ Len(a) < Len(b)
       /\ \A i \in DOMAIN a : a[i] = b[i]
    \/ \E i \in DOMAIN a \cap DOMAIN b :
          /\ \A j \in 1..(i - 1) : a[j] = b[j]
          /\ a[i] # b[i]
          /\ ItemLess(a[i], b[i])

CharLess(c, d) == CodePoint(c) < CodePoint(d)
StrLess(s, t) == SeqLess(s, t, CharLess)

\* PurePath.__lt__: the parts of the two paths compared as lists of str
PathLess(p, q) == SeqLess(p, q, StrLess)

(***************************************************************************)
(* The SQLite store behind one sqlite3 connection.  durable is what is on  *)
(* disk, working what the connection sees, in_txn whether the connection   *)
(* has a transaction open.  A table is found by the slot of its name; its  *)
(* rows are the numbers of the data rows of the source file, in insertion  *)
(* order, and source is the file the last appended rows came from.         *)
(* import_timestamp is the number of the run that wrote the record.        *)
(***************************************************************************)
NoTable == [exists |-> FALSE, cols |-> 0, source |-> 0, rows |-> << >>]
NewTable(ncols) == [exists |-> TRUE, cols |-> ncols, source |-> 0, rows |-> << >>]
NoRecord ==
    [present |-> FALSE, source_file |-> 0, row_count |-> 0, column_count |-> 0,
     import_timestamp |-> 0]
EmptyStore ==
    [tables |-> [t \in TableSlots |-> NoTable],
     meta_exists |-> FALSE,
     meta |-> [t \in TableSlots |-> NoRecord]]
NewConnection(store) == [durable |-> store, working |-> store, in_txn |-> FALSE]

\* connection.commit()
Commit(c) == [durable |-> c.working, working |-> c.working, in_txn |-> FALSE]

\* connection.rollback()
Rollback(c) == [durable |-> c.durable, working |-> c.durable, in_txn |-> FALSE]

\* connection.close(): an open transaction is abandoned, never committed
Close(c) == [durable |-> c.durable, working |-> c.durable, in_txn |-> FALSE]

\* connection.execute of a DROP or CREATE: sqlite3 opens no transaction for
\* it, so outside a transaction it is durable at once
ExecuteDDL(c, store) ==
    [durable |-> IF c.in_txn THEN c.durable ELSE store, working |-> store, in_txn |-> c.in_txn]

\* connection.execute of an INSERT: sqlite3 first opens a transaction
ExecuteDML(c, store) == [durable |-> c.durable, working |-> store, in_txn |-> TRUE]

WithTable(store, t, table) == [store EXCEPT !.tables[t] = table]

\* only CREATE TABLE IF NOT EXISTS, the DROP left out
DropAndCreate_NoDrop(c, t, ncols) ==
    IF c.working.tables[t].exists THEN c
    ELSE ExecuteDDL(c, WithTable(c.working, t, NewTable(ncols)))

\* DROP TABLE IF EXISTS t; CREATE TABLE IF NOT EXISTS t (...)
DropAndCreate(c, t, ncols) ==
    LET dropped == ExecuteDDL(c, WithTable(c.working, t, NoTable))
    IN  ExecuteDDL(dropped, WithTable(dropped.working, t, NewTable(ncols)))

AppendRows(store, t, f, rows) ==
    [store EXCEPT !.tables[t].rows = @ \o rows, !.tables[t].source = f]

\* the append without pandas' commit: the rows stay in the open transaction
to_sql_NoCommit(c, t, f, rows) == ExecuteDML(c, AppendRows(c.working, t, f, rows))

\* df.to_sql(t, connection, if_exists='append') of rows of file f that
\* succeeds: pandas runs the INSERT in its own transaction scope and commits
\* the connection at its end
to_sql(c, t, f, rows) == Commit(ExecuteDML(c, AppendRows(c.working, t, f, rows)))

\* df.to_sql that raises: pandas rolls the connection back and re-raises
to_sql_raises(c) == Rollback(c)

\* rows first..last of a file
RowsFrom(first, last) == [i \in 1..(last - first + 1) |-> first + i - 1]

\* the rows of window k (chunksize=batch_size) of a file of n rows
WindowRows(k, n) ==
    RowsFrom((k - 1) * BatchSize + 1, IF k * BatchSize < n THEN k * BatchSize ELSE n)

\* SELECT COUNT(*) and the column count, per table
Counts(store) ==
    [t \in TableSlots |-> [exists |-> store.tables[t].exists,
                           rows |-> Len(store.tables[t].rows),
                           cols |-> store.tables[t].cols]]

VARIABLES
    \* the environment, fixed for a behaviour
    data_dir_exists,     \* self.data_dir.exists()
    db_openable,         \* sqlite3.connect(self.db_path) succeeds
    files,               \* the source files, by position in ascending path order
    directory,           \* which of the Directories is on disk
    \* the store
    db,                  \* [durable, working, in_txn]
    \* the running command
    cmd,                 \* "none", "full" (import_to_sqlite) or "large" (import_large_files)
    pc,                  \* where the command is; "idle" when no command runs
    run_no,              \* how many commands have been started
    csv_files,           \* the list run_import iterates over
    idx,                 \* position of the for loop in csv_files
    chunk_num,           \* import_csv_in_batches' chunk_num
    total_rows,          \* import_csv_in_batches' total_rows
    encoding,            \* the encoding of the last read_csv of the file
    imported,            \* self.imported_tables / self.imported_files
    successful_imports,
    failed_imports,
    exit_status,         \* of the last command's process; -1 before any has ended
    \* the locals of the import of the current file
    table_name,          \* table_name
    table_slot,          \* the slot of the store that table_name names
    df_len,              \* len(df) / len(sample_df), 0 when there is no frame
    chunk_len,           \* len(chunk_df), 0 when there is no chunk
    \* history, read by the properties only
    ret,                 \* per file, how its import returned in this run
    file_start,          \* the durable table of the current file when its import began
    appended,            \* the rows of the to_sql calls that returned, for the current file
    ckpt_rows,           \* Len(appended) at the last connection.commit() of the loader
    interrupted_at,      \* pc at which the last command was interrupted, or "none"
    completed,           \* the last command ran to its end
    start_counts,        \* Counts of the store when the current command started
    same_as_prev,        \* the command before this one was the same one and completed
    sample_encoding,     \* the encoding with which the sample read of the file succeeded
    started,             \* the files whose import has begun in this run, in order
    start_meta,          \* import_metadata on disk when the current command started
    \* the pure functions, applied to one input
    fn_pc, column_name, sanitized, headers, new_cols, values, col_type,
    data_dir, csv_path, generated,
    \* the programs around the importers, each with its own state
    utils,               \* a call of utils.py (load_csv, find_column, get_available_tables)
    verifier,            \* scripts/verify_database.py: get_database_info
    indexer,             \* VCTDataImporter.create_indexes
    runner               \* reliable_tunnel.py: ReliableVCTRunner

envVars == << data_dir_exists, db_openable, files, directory >>

\* the path of every file
paths == Directories[directory]
localVars == << table_name, table_slot, df_len, chunk_len >>
procVars == << cmd, pc, run_no, csv_files, idx, chunk_num, total_rows, encoding,
               imported, successful_imports, failed_imports, exit_status, localVars >>
runHist == << sample_encoding, started, start_meta >>
histVars == << ret, file_start, appended, ckpt_rows, interrupted_at, completed,
               start_counts, same_as_prev, runHist >>
pathVars == << data_dir, csv_path, generated >>
fnVars == << fn_pc, column_name, sanitized, headers, new_cols, values, col_type, pathVars >>
otherVars == << utils, verifier, indexer, runner >>
vars == << envVars, db, procVars, histVars, fnVars, otherVars >>

NoPath == data_dir = << >> /\ csv_path = << >> /\ generated = << >>

FnIdle ==
    /\ fn_pc = "off"
    /\ NoPath
    /\ column_name = << >> /\ sanitized = << >>
    /\ headers = << >> /\ new_cols = << >>
    /\ values = << >> /\ col_type = "none"

\* no call of utils.py is under way
UtilsIdle ==
    utils = [pc |-> "off", path_parts |-> << >>, db_exists |-> FALSE, lookup |-> "none",
             csv |-> "none", table_name |-> << >>, df |-> "none"]
\* no listing of the database is under way
VerifierIdle == verifier = [pc |-> "off"]
\* create_indexes is not running
IndexerIdle == indexer = [pc |-> "off"]
\* the runner is not started
RunnerIdle == runner = [main |-> "off"]
OthersIdle == UtilsIdle /\ VerifierIdle /\ IndexerIdle /\ RunnerIdle

\* no command has run: a fresh store and empty locals
NothingRun ==
    /\ db = NewConnection(EmptyStore)
    /\ cmd = "none" /\ run_no = 0
    /\ csv_files = << >> /\ idx = 1
    /\ chunk_num = 0 /\ total_rows = 0 /\ encoding = "utf-8"
    /\ imported = << >>
    /\ successful_imports = 0 /\ failed_imports = 0
    /\ exit_status = -1
    /\ table_name = << >> /\ table_slot = 0 /\ df_len = 0 /\ chunk_len = 0
    /\ ret = [f \in FileIds |-> "none"]
    /\ file_start = NoTable /\ appended = << >> /\ ckpt_rows = 0
    /\ interrupted_at = "none" /\ completed = FALSE
    /\ start_counts = Counts(EmptyStore) /\ same_as_prev = FALSE
    /\ sample_encoding = "none"
    /\ started = << >>
    /\ start_meta = EmptyStore.meta

ImporterIdle ==
    /\ data_dir_exists = TRUE /\ db_openable = TRUE
    /\ files = [f \in FileIds |-> File(FALSE, FALSE, 0, 0, 0)]
    /\ directory = "listed"
    /\ pc = "off"
    /\ NothingRun

(***************************************************************************)
(* Init: a fresh store, no command run yet, any directory with at most one *)
(* file of more than ten windows, and none in the directory of the other   *)
(* paths.  When the data directory is absent no file under it exists.      *)
(***************************************************************************)
Init ==
    /\ FnIdle /\ OthersIdle
    /\ data_dir_exists \in BOOLEAN
    /\ db_openable \in BOOLEAN
    /\ files \in [FileIds -> FileKinds]
    /\ directory \in DOMAIN Directories
    /\ ~data_dir_exists => \A f \in FileIds : ~files[f].exists
    /\ Cardinality({ f \in FileIds : files[f].rows > CommitEvery * BatchSize }) <= 1
    /\ directory = "other" => \A f \in FileIds : files[f].rows <= CommitEvery * BatchSize
    /\ pc = "idle"
    /\ NothingRun

\* the file the for loop is at
CurFile == csv_files[idx]
InLoop == pc # "idle" /\ idx <= Len(csv_files)

\* the orders in which a directory walk can yield the files of S
Orderings(S) ==
    { s \in [1..Cardinality(S) -> S] : \A i, j \in 1..Cardinality(S) : i # j => s[i] # s[j] }

\* self.data_dir.rglob("*.csv") with the is_file() test: the files that
\* exist, in the order of the directory walk
rglob == Orderings({ f \in FileIds : files[f].exists })

\* one file put at its place in an ascending list of files
RECURSIVE InsertSorted(_, _)
InsertSorted(f, list) ==
    IF list = << >> THEN << f >>
    ELSE IF PathLess(paths[f], paths[Head(list)]) THEN << f >> \o list
    ELSE << Head(list) >> \o InsertSorted(f, Tail(list))

\* the list returned as it was found, the sort left out
sorted_AsFound(found) == found

\* sorted(csv_files): ascending by Path comparison
RECURSIVE sorted(_)
sorted(found) ==
    IF found = << >> THEN << >>
    ELSE InsertSorted(found[Len(found)], sorted(SubSeq(found, 1, Len(found) - 1)))

\* self.large_files: the fixed list of paths, in the order of the source
\* (which is ascending), whether or not the files exist
LargeFiles == [i \in 1..NumFiles |-> i]

\* the path of the file the for loop is at
CurPath == IF cmd = "large" THEN ListedPath(CurFile) ELSE paths[CurFile]

\* csv_path.exists() for entry f of large_files
ListedFileExists(f) == paths[f] = ListedPath(f) /\ files[f].exists

\* encodings = ['utf-8', 'latin-1', 'cp1252', 'iso-8859-1']
Encodings == << "utf-8", "latin-1", "cp1252", "iso-8859-1" >>

\* read_csv with this encoding raises no UnicodeDecodeError: latin-1 and
\* iso-8859-1 decode every byte, utf-8 and cp1252 do not
Decodes(f, enc) == enc \in {"utf-8", "cp1252"} => files[f].bad_row = 0

\* the encoding at which the loop of lines 161-167 breaks
FirstDecoding(f) ==
    Encodings[Min({ i \in DOMAIN Encodings : Decodes(f, Encodings[i]) })]

\* sample_df.empty / df.empty
SampleEmpty_Never(f) == FALSE
SampleEmpty(f) == files[f].rows = 0

(***************************************************************************)
(* main() and the head of run_import: connect_db(); a failure to connect   *)
(* is re-raised to the interpreter (exit status 1).                        *)
(***************************************************************************)
StartRun(c) ==
    /\ pc = "idle"
    /\ run_no < MaxRuns
    /\ run_no' = run_no + 1
    /\ cmd' = c
    /\ db' = NewConnection(db.durable)
    /\ idx' = 1 /\ chunk_num' = 0 /\ total_rows' = 0 /\ encoding' = "utf-8"
    /\ imported' = << >>
    /\ successful_imports' = 0 /\ failed_imports' = 0
    /\ table_name' = << >> /\ table_slot' = 0 /\ df_len' = 0 /\ chunk_len' = 0
    /\ ret' = [f \in FileIds |-> "none"]
    /\ file_start' = NoTable /\ appended' = << >> /\ ckpt_rows' = 0
    /\ interrupted_at' = "none"
    /\ start_counts' = Counts(db.durable)
    /\ same_as_prev' = (completed /\ cmd = c)
    /\ sample_encoding' = "none"
    /\ started' = << >>
    /\ start_meta' = db.durable.meta
    /\ IF db_openable
       THEN /\ pc' = IF c = "full" THEN "find" ELSE "next"
            /\ csv_files' = IF c = "full" THEN << >> ELSE LargeFiles
            /\ exit_status' = -1
            /\ completed' = FALSE
       ELSE /\ pc' = "idle"
            /\ csv_files' = << >>
            /\ exit_status' = 1
            /\ completed' = FALSE
    /\ UNCHANGED << envVars, otherVars, fnVars >>

\* the failure that ends the for loop instead of moving to the next file
ReturnFalse_EndsLoop(why) ==
    /\ ret' = [ret EXCEPT ![CurFile] = why]
    /\ failed_imports' = failed_imports + 1
    /\ idx' = Len(csv_files) + 1
    /\ pc' = "next"
    /\ df_len' = 0 /\ chunk_len' = 0
    /\ UNCHANGED << successful_imports, imported >>

\* `return False` of an import, and run_import's failed_imports += 1; the
\* frames of the import are released
ReturnFalse(why) ==
    /\ ret' = [ret EXCEPT ![CurFile] = why]
    /\ failed_imports' = failed_imports + 1
    /\ idx' = idx + 1
    /\ pc' = "next"
    /\ df_len' = 0 /\ chunk_len' = 0
    /\ UNCHANGED << successful_imports, imported >>

\* the bookkeeping of a successful import and run_import's successful_imports += 1
ReturnTrue(row_count) ==
    /\ ret' = [ret EXCEPT ![CurFile] = "true"]
    /\ imported' = Append(imported, [table_name |-> table_name, source_file |-> CurFile,
                                     row_count |-> row_count,
                                     column_count |-> files[CurFile].cols])
    /\ successful_imports' = successful_imports + 1
    /\ idx' = idx + 1
    /\ pc' = "next"
    /\ df_len' = 0 /\ chunk_len' = 0
    /\ UNCHANGED failed_imports

(***************************************************************************)
(* VCTDataImporter (import_to_sqlite.py).                                  *)
(***************************************************************************)
\* find_csv_files and `if not csv_files: return`
FullFind ==
    /\ cmd = "full" /\ pc = "find"
    /\ \E found \in rglob :
          csv_files' = IF data_dir_exists THEN sorted(found) ELSE << >>
    /\ pc' = IF csv_files' = << >> THEN "close" ELSE "next"
    /\ UNCHANGED << envVars, otherVars, db, cmd, run_no, idx, chunk_num, total_rows, encoding,
                    imported, successful_imports, failed_imports, exit_status,
                    localVars, histVars, fnVars >>

\* import_csv_file up to the schema: the table name, then the read of the
\* whole file, trying the encodings in turn; a file that cannot be read or
\* has no data row returns False
FullRead ==
    /\ cmd = "full" /\ pc = "next" /\ idx <= Len(csv_files)
    /\ table_name' = generate_table_name(CurPath, DataDir)
    /\ started' = Append(started, CurFile)
    /\ table_slot' = Slot(table_name')
    /\ file_start' = db.durable.tables[table_slot']
    /\ appended' = << >> /\ ckpt_rows' = 0
    /\ IF ~files[CurFile].readable
       THEN /\ encoding' = Encodings[1]
            /\ sample_encoding' = "none"
            /\ ReturnFalse("read_failed")
       ELSE /\ encoding' = FirstDecoding(CurFile)
            /\ sample_encoding' = encoding'
            /\ IF SampleEmpty(CurFile)
               THEN ReturnFalse("empty")
               ELSE /\ pc' = "create"
                    /\ df_len' = files[CurFile].rows
                    /\ chunk_len' = 0
                    /\ UNCHANGED << ret, idx, imported, successful_imports,
                                    failed_imports >>
    /\ UNCHANGED << envVars, otherVars, db, cmd, run_no, csv_files, chunk_num, total_rows,
                    exit_status, interrupted_at, completed, start_counts, same_as_prev,
                    start_meta, fnVars >>

\* lines 201-202: DROP TABLE IF EXISTS, then the schema
FullCreate ==
    /\ cmd = "full" /\ pc = "create"
    /\ db' = DropAndCreate(db, table_slot, files[CurFile].cols)
    /\ pc' = "insert"
    /\ UNCHANGED << envVars, otherVars, cmd, run_no, csv_files, idx, chunk_num, total_rows, encoding,
                    imported, successful_imports, failed_imports, exit_status,
                    localVars, histVars, fnVars >>

\* lines 205-223: one to_sql of the whole frame, the COUNT, the record; an
\* exception is logged and the import returns False (nothing is rolled back here)
FullInsert ==
    /\ cmd = "full" /\ pc = "insert"
    /\ IF files[CurFile].fail_call = 1
       THEN /\ db' = to_sql_raises(db)
            /\ ReturnFalse("write_failed")
            /\ UNCHANGED appended
       ELSE /\ db' = to_sql(db, table_slot, CurFile, RowsFrom(1, files[CurFile].rows))
            /\ appended' = RowsFrom(1, files[CurFile].rows)
            /\ ReturnTrue(Len(db'.working.tables[table_slot].rows))
    /\ UNCHANGED << envVars, otherVars, cmd, run_no, csv_files, chunk_num, total_rows, encoding,
                    exit_status, table_name, table_slot, file_start, ckpt_rows, interrupted_at,
                    completed, start_counts, same_as_prev,
                    sample_encoding, started, start_meta, fnVars >>

\* the end of the for loop of run_import, in either command
LoopEnd ==
    /\ pc = "next" /\ idx > Len(csv_files)
    /\ pc' = "metadata"
    /\ UNCHANGED << envVars, otherVars, db, cmd, run_no, csv_files, idx, chunk_num, total_rows,
                    encoding, imported, successful_imports, failed_imports, exit_status,
                    localVars, histVars, fnVars >>

\* one entry of imported_tables / imported_files as a row of import_metadata
Record(table_info, import_timestamp) ==
    [present |-> TRUE, source_file |-> table_info.source_file,
     row_count |-> table_info.row_count, column_count |-> table_info.column_count,
     import_timestamp |-> import_timestamp]

\* the loop of INSERT INTO import_metadata (import_to_sqlite.py 261-272): a
\* second record of a table name violates UNIQUE(table_name), and the
\* sqlite3.IntegrityError ends the loop (it is caught and logged, line 276)
RECURSIVE InsertRecords(_, _, _)
InsertRecords(meta, recs, import_timestamp) ==
    IF recs = << >> THEN meta
    ELSE IF meta[Slot(Head(recs).table_name)].present THEN meta
    ELSE InsertRecords([meta EXCEPT ![Slot(Head(recs).table_name)] =
                            Record(Head(recs), import_timestamp)],
                       Tail(recs), import_timestamp)

\* the loop of INSERT OR REPLACE INTO import_metadata (import_large_files.py 294-306)
RECURSIVE ReplaceRecords(_, _, _)
ReplaceRecords(meta, recs, import_timestamp) ==
    IF recs = << >> THEN meta
    ELSE ReplaceRecords([meta EXCEPT ![Slot(Head(recs).table_name)] =
                            Record(Head(recs), import_timestamp)],
                        Tail(recs), import_timestamp)

\* create_metadata_table: DROP, CREATE, one INSERT per imported table; no commit
FullMetadata ==
    /\ cmd = "full" /\ pc = "metadata"
    /\ LET created == ExecuteDDL(db, [db.working EXCEPT
                                        !.meta_exists = TRUE,
                                        !.meta = [t \in TableSlots |-> NoRecord]])
       IN  db' = IF imported = << >> THEN created
                 ELSE ExecuteDML(created, [created.working EXCEPT
                                              !.meta = InsertRecords(@, imported, run_no)])
    /\ pc' = "commit"
    /\ UNCHANGED << envVars, otherVars, cmd, run_no, csv_files, idx, chunk_num, total_rows, encoding,
                    imported, successful_imports, failed_imports, exit_status,
                    localVars, histVars, fnVars >>

\* create_indexes (no table content changes), connection.commit(), the summary
FullCommit ==
    /\ cmd = "full" /\ pc = "commit"
    /\ db' = Commit(db)
    /\ pc' = "close"
    /\ UNCHANGED << envVars, otherVars, cmd, run_no, csv_files, idx, chunk_num, total_rows, encoding,
                    imported, successful_imports, failed_imports, exit_status,
                    localVars, histVars, fnVars >>

(***************************************************************************)
(* LargeFileImporter (import_large_files.py).                              *)
(***************************************************************************)
\* the sample read of lines 187-197: nrows=1000 in UTF-8 and, after a
\* UnicodeDecodeError, in Latin-1; the bytes of the first SampleRows rows
\* are decoded
SampleDecodes(f, enc) ==
    enc = "utf-8" => files[f].bad_row \notin 1..SampleRows

\* import_csv_in_batches lines 175-221: the table name, the existence check,
\* the sample read, the empty check
LargeReadSample ==
    /\ cmd = "large" /\ pc = "next" /\ idx <= Len(csv_files)
    /\ table_name' = generate_table_name(CurPath, DataDir)
    /\ started' = Append(started, CurFile)
    /\ table_slot' = Slot(table_name')
    /\ file_start' = db.durable.tables[table_slot']
    /\ appended' = << >> /\ ckpt_rows' = 0
    /\ chunk_num' = 0 /\ total_rows' = 0
    /\ IF ~ListedFileExists(CurFile)
       THEN /\ encoding' = "none"
            /\ sample_encoding' = "none"
            /\ ReturnFalse("read_failed")
       ELSE IF ~files[CurFile].readable
       THEN /\ encoding' = "utf-8"
            /\ sample_encoding' = "none"
            /\ ReturnFalse("read_failed")
       ELSE /\ encoding' = IF SampleDecodes(CurFile, "utf-8") THEN "utf-8" ELSE "latin-1"
            /\ sample_encoding' = encoding'
            /\ IF SampleEmpty(CurFile)
               THEN ReturnFalse("empty")
               ELSE /\ pc' = "create"
                    /\ df_len' = IF files[CurFile].rows < SampleRows
                                 THEN files[CurFile].rows ELSE SampleRows
                    /\ chunk_len' = 0
                    /\ UNCHANGED << ret, idx, imported, successful_imports,
                                    failed_imports >>
    /\ UNCHANGED << envVars, otherVars, db, cmd, run_no, csv_files, exit_status,
                    interrupted_at, completed, start_counts, same_as_prev,
                    start_meta, fnVars >>

\* lines 224-233: DROP, CREATE, and `encoding = 'utf-8'` before the loop
LargeCreate ==
    /\ cmd = "large" /\ pc = "create"
    /\ db' = DropAndCreate(db, table_slot, files[CurFile].cols)
    /\ encoding' = "utf-8"
    /\ pc' = "stream"
    /\ UNCHANGED << envVars, otherVars, cmd, run_no, csv_files, idx, chunk_num, total_rows,
                    imported, successful_imports, failed_imports, exit_status,
                    localVars, histVars, fnVars >>

\* the file has a next window: chunk_num windows have been read in this pass
HasNextWindow == chunk_num * BatchSize < files[CurFile].rows

\* reading window k in UTF-8 raises UnicodeDecodeError
DecodeFails(k) ==
    /\ encoding = "utf-8"
    /\ files[CurFile].bad_row > (k - 1) * BatchSize
    /\ files[CurFile].bad_row <= k * BatchSize

\* `if chunk_num % 10 == 0`
CommitsAfter(k) == k % CommitEvery = 0

\* `if chunk_num % 10 == 0: self.connection.commit()`
PeriodicCommit(c, k) == IF CommitsAfter(k) THEN Commit(c) ELSE c

\* one turn of the for loop over the chunks (lines 234-246, and 255-263 after
\* the retry): read the window, append it, commit on every 10th;
\* UnicodeDecodeError restarts the loop in Latin-1 (lines 248-253), any other
\* exception is rolled back and returns False (lines 282-286)
LargeStreamWindow ==
    /\ cmd = "large" /\ pc = "stream" /\ HasNextWindow
    /\ LET k == chunk_num + 1
           rows == WindowRows(k, files[CurFile].rows)
       IN  IF DecodeFails(k)
           THEN /\ encoding' = "latin-1"
                /\ total_rows' = 0
                /\ chunk_num' = 0
                /\ UNCHANGED << db, pc, idx, ret, imported, successful_imports,
                                failed_imports, appended, ckpt_rows,
                                df_len, chunk_len >>
           ELSE IF files[CurFile].fail_call = k
           THEN /\ db' = Rollback(to_sql_raises(db))
                /\ chunk_num' = k
                /\ ReturnFalse("write_failed")
                /\ UNCHANGED << encoding, total_rows, appended, ckpt_rows >>
           ELSE /\ db' = PeriodicCommit(to_sql(db, table_slot, CurFile, rows), k)
                /\ chunk_num' = k
                /\ chunk_len' = Len(rows)
                /\ total_rows' = total_rows + Len(rows)
                /\ appended' = appended \o rows
                /\ ckpt_rows' = IF CommitsAfter(k) THEN Len(appended') ELSE ckpt_rows
                /\ UNCHANGED << encoding, pc, idx, ret, imported, successful_imports,
                                failed_imports, df_len >>
    /\ UNCHANGED << envVars, otherVars, cmd, run_no, csv_files, exit_status, table_name, table_slot, file_start,
                    interrupted_at, completed, start_counts, same_as_prev,
                    sample_encoding, started, start_meta, fnVars >>

\* lines 265-280: the final commit, the COUNT query, the record
LargeFinish ==
    /\ cmd = "large" /\ pc = "stream" /\ ~HasNextWindow
    /\ db' = Commit(db)
    /\ ckpt_rows' = Len(appended)
    /\ ReturnTrue(Len(db'.working.tables[table_slot].rows))
    /\ UNCHANGED << envVars, otherVars, cmd, run_no, csv_files, chunk_num, total_rows, encoding,
                    exit_status, table_name, table_slot, file_start, appended, interrupted_at,
                    completed, start_counts, same_as_prev,
                    sample_encoding, started, start_meta, fnVars >>

\* `if self.imported_files: self.update_metadata_table()`: INSERT OR REPLACE
\* per imported file and a commit; without the import_metadata table the
\* first INSERT raises sqlite3.OperationalError, which is logged (line 312)
LargeMetadata ==
    /\ cmd = "large" /\ pc = "metadata"
    /\ db' = IF imported # << >> /\ db.working.meta_exists
             THEN Commit(ExecuteDML(db, [db.working EXCEPT
                                            !.meta = ReplaceRecords(@, imported, run_no)]))
             ELSE db
    /\ pc' = "close"
    /\ UNCHANGED << envVars, otherVars, cmd, run_no, csv_files, idx, chunk_num, total_rows, encoding,
                    imported, successful_imports, failed_imports, exit_status,
                    localVars, histVars, fnVars >>

(***************************************************************************)
(* The end of a command.                                                   *)
(***************************************************************************)
\* `finally: self.close_db()`, and main returns: exit status 0
CloseDb ==
    /\ pc = "close"
    /\ db' = Close(db)
    /\ pc' = "idle"
    /\ exit_status' = 0
    /\ completed' = TRUE
    /\ UNCHANGED << envVars, otherVars, cmd, run_no, csv_files, idx, chunk_num, total_rows, encoding,
                    imported, successful_imports, failed_imports, localVars,
                    ret, file_start, appended, ckpt_rows, interrupted_at,
                    start_counts, same_as_prev, runHist, fnVars >>

\* KeyboardInterrupt between two steps: no `except Exception` catches it, the
\* finally clause closes the connection, main logs it and returns; the
\* frames go with the call stack
Interrupt ==
    /\ pc \notin {"idle", "off"}
    /\ db' = Close(db)
    /\ interrupted_at' = pc
    /\ pc' = "idle"
    /\ exit_status' = 0
    /\ completed' = FALSE
    /\ df_len' = 0 /\ chunk_len' = 0
    /\ UNCHANGED << envVars, otherVars, cmd, run_no, csv_files, idx, chunk_num, total_rows, encoding,
                    imported, successful_imports, failed_imports, table_name, table_slot,
                    ret, file_start, appended, ckpt_rows,
                    start_counts, same_as_prev, runHist, fnVars >>

Next ==
    \/ \E c \in {"full", "large"} : StartRun(c)
    \/ FullFind
    \/ FullRead
    \/ FullCreate
    \/ FullInsert
    \/ LoopEnd
    \/ FullMetadata
    \/ FullCommit
    \/ LargeReadSample
    \/ LargeCreate
    \/ LargeStreamWindow
    \/ LargeFinish
    \/ LargeMetadata
    \/ CloseDb
    \/ Interrupt

Spec == Init /\ [][Next]_vars

(***************************************************************************)
(* The pure functions, each applied to one input drawn from a bounded set. *)
(***************************************************************************)
MaxNameLen == 4
MaxCols == 3
MaxVals == 3

SeqsUpTo(S, n) == UNION { [1..k -> S] : k \in 0..n }

\* 'Match ID!', '2nd Half', 'Team'
MatchId == << "M","a","t","c","h"," ","I","D","!" >>
SecondHalf == << "2","n","d"," ","H","a","l","f" >>
Team == << "T","e","a","m" >>

NameChars == { "a", "B", "1", "_", " ", "!" }
NameInputs == SeqsUpTo(NameChars, MaxNameLen) \cup { MatchId, SecondHalf, Team }

\* header names that collide after sanitising, and names that look like a
\* de-duplicated name
HeaderPool ==
    { Team,
      << "t","e","a","m" >>,
      << "T","e","a","m","!" >>,
      << "t","e","a","m","_","1" >>,
      << "t","e","a","m"," ","2" >>,
      << "2","n","d" >>,
      << "m","a","p" >>,
      << >> }
HeaderInputs == SeqsUpTo(HeaderPool, MaxCols)

\* the column names of the CREATE TABLE statement create_table_schema builds
\* for a frame with the columns df_columns (import_to_sqlite.py 136-139,
\* import_large_files.py 162-165)
create_table_schema(df_columns) ==
    [i \in DOMAIN df_columns |-> sanitize_column_name(df_columns[i])]

ValuePool ==
    { NoneValue, << >>, << " " >>,
      << "1" >>, << "2" >>, << "3" >>, << " ","7"," " >>, << "-","4" >>,
      << "2",".","5" >>, << "2",".","0" >>, << "1","e","3" >>, << "n","a","n" >>,
      << "a","b","c" >> }
ValueInputs == SeqsUpTo(ValuePool, MaxVals)

\* columns longer than the sample: SampleSize - 1 or SampleSize equal values,
\* then up to MaxTail further values
MaxTail == 2
Repeat(v, n) == [i \in 1..n |-> v]
LongPrefixPool == { << "1" >>, << "2",".","0" >>, << "a","b","c" >> }
TailPool == { NoneValue, << "2" >>, << "2",".","5" >>, << "a","b","c" >> }
LongInputs ==
    { Repeat(a, n) \o t : a \in LongPrefixPool, n \in {SampleSize - 1, SampleSize},
                          t \in SeqsUpTo(TailPool, MaxTail) }
ColumnInputs == ValueInputs \cup LongInputs

\* the fields read_csv turns into NaN (of its default na_values, those spelt
\* with the characters of the inputs)
NaWords == { << >>, << "n","a","n" >>, << "N","a","N" >>, << "N","A" >>, << "n","u","l","l" >> }

\* a column as read_csv returns it: NaN, or a literal that is no NaN word and
\* has no blank around it
IsSeries(column) ==
    \A i \in DOMAIN column :
        \/ column[i] = NoneValue
        \/ /\ column[i] \notin NaWords
           /\ Strip(column[i], Whitespace) = column[i]

\* sanitize_column_name(column_name)
InitSanitize ==
    /\ ImporterIdle /\ OthersIdle
    /\ fn_pc = "input"
    /\ column_name \in NameInputs /\ sanitized = << >>
    /\ headers = << >> /\ new_cols = << >>
    /\ values = << >> /\ col_type = "none"
    /\ NoPath

Sanitize ==
    /\ fn_pc = "input"
    /\ sanitized' = sanitize_column_name(column_name)
    /\ fn_pc' = "done"
    /\ UNCHANGED << envVars, otherVars, db, procVars, histVars,
                    column_name, headers, new_cols, values, col_type, pathVars >>

SpecSanitize == InitSanitize /\ [][Sanitize]_vars

\* df.columns = [sanitize_column_name(col) ...] and the duplicate loop
InitSchema ==
    /\ ImporterIdle /\ OthersIdle
    /\ fn_pc = "input"
    /\ headers \in HeaderInputs /\ new_cols = << >>
    /\ column_name = << >> /\ sanitized = << >>
    /\ values = << >> /\ col_type = "none"
    /\ NoPath

SanitizeColumns ==
    /\ fn_pc = "input"
    /\ new_cols' = sanitized_columns(headers)
    /\ fn_pc' = "done"
    /\ UNCHANGED << envVars, otherVars, db, procVars, histVars,
                    column_name, sanitized, headers, values, col_type, pathVars >>

SpecSchema == InitSchema /\ [][SanitizeColumns]_vars

\* infer_column_type(values)
InitInfer ==
    /\ ImporterIdle /\ OthersIdle
    /\ fn_pc = "input"
    /\ values \in ColumnInputs /\ col_type = "none"
    /\ column_name = << >> /\ sanitized = << >>
    /\ headers = << >> /\ new_cols = << >>
    /\ NoPath

InferType ==
    /\ fn_pc = "input"
    /\ col_type' = infer_column_type(values)
    /\ fn_pc' = "done"
    /\ UNCHANGED << envVars, otherVars, db, procVars, histVars,
                    column_name, sanitized, headers, new_cols, values, pathVars >>

\* LargeFileImporter.infer_column_type(df[col]), on a column read_csv can return
InferTypeLarge ==
    /\ fn_pc = "input"
    /\ IsSeries(values)
    /\ col_type' = Large_infer_column_type(values)
    /\ fn_pc' = "done_large"
    /\ UNCHANGED << envVars, otherVars, db, procVars, histVars,
                    column_name, sanitized, headers, new_cols, values, pathVars >>

SpecInfer == InitInfer /\ [][InferType \/ InferTypeLarge]_vars

\* generate_table_name(csv_path), for files at most MaxDepth folders below data_dir
MaxDepth == 2
FolderPool ==
    { Vct2024, Matches, << "a" >>, << "a","_","b" >>, << "M","y"," ","D","a","t","a" >>,
      << "x","-","y" >> }
FileNamePool ==
    { Overview,
      << "c",".","c","s","v" >>,
      << "b","_","c",".","c","s","v" >>,
      << "a",".","b",".","c","s","v" >>,
      << ".","c","s","v" >>,
      << "2","0","2","1",".","c","s","v" >>,
      << "_",".","c","s","v" >> }
RootPool == { << << "d","a","t","a" >> >>, << << "r","o","o","t" >> >>,
              << << "s","r","v" >>, << "d","a","t","a" >> >> }
RelativePaths ==
    { folders \o << name >> : folders \in SeqsUpTo(FolderPool, MaxDepth), name \in FileNamePool }

InitTableName ==
    /\ ImporterIdle /\ OthersIdle
    /\ fn_pc = "input"
    /\ data_dir \in RootPool
    /\ \E rel \in RelativePaths : csv_path = data_dir \o rel
    /\ generated = << >>
    /\ column_name = << >> /\ sanitized = << >>
    /\ headers = << >> /\ new_cols = << >>
    /\ values = << >> /\ col_type = "none"

GenerateTableName ==
    /\ fn_pc = "input"
    /\ generated' = generate_table_name(csv_path, data_dir)
    /\ fn_pc' = "done"
    /\ UNCHANGED << envVars, otherVars, db, procVars, histVars,
                    column_name, sanitized, headers, new_cols, values, col_type,
                    data_dir, csv_path >>

\* load_csv's table name for the same file, given by its parts below the
\* data directory
LoadCsvTableName ==
    /\ fn_pc = "input"
    /\ generated' = load_csv_table_name(relative_to(csv_path, data_dir))
    /\ fn_pc' = "done_load"
    /\ UNCHANGED << envVars, otherVars, db, procVars, histVars,
                    column_name, sanitized, headers, new_cols, values, col_type,
                    data_dir, csv_path >>

SpecTableName == InitTableName /\ [][GenerateTableName \/ LoadCsvTableName]_vars

(***************************************************************************)
(* load_csv and load_table_from_db (utils.py 45-98) as a state machine.    *)
(* What the call finds on disk is fixed when it starts:                    *)
(*   db_exists  DB_PATH.exists()                                           *)
(*   lookup     what SELECT * FROM table_name does on the database file:   *)
(*              "table" returns the table's rows, "no_table" raises (no    *)
(*              such table), "not_a_database" raises (the file is not a    *)
(*              SQLite database)                                           *)
(*   csv        what pd.read_csv does on the file the path parts name      *)
(*              under BASE_DIR:                                            *)
(*              "rows" returns the file's contents, "absent" raises        *)
(*              FileNotFoundError, "unreadable" raises another exception   *)
(* df is the frame returned: "table" the table's contents, "csv" the       *)
(* file's contents, "empty" pd.DataFrame().                                *)
(***************************************************************************)
PathPartsPool ==
    { << Vct2024, Matches, Overview >>, << Matches, Overview >>,
      << << "a" >>, << "b","_","c",".","c","s","v" >> >>,
      << << "a","_","b" >>, << "c",".","c","s","v" >> >>,
      << << "M","y"," ","D","a","t","a" >>, << "c",".","c","s","v" >> >>,
      << << "c",".","c","s","v" >> >> }
Lookups == { "table", "no_table", "not_a_database" }
CsvReads == { "rows", "absent", "unreadable" }

UtilsCall(parts, exists, lookup, csv) ==
    [pc |-> "call", path_parts |-> parts, db_exists |-> exists, lookup |-> lookup,
     csv |-> csv, table_name |-> << >>, df |-> "none"]

InitLoadCsv ==
    /\ ImporterIdle /\ FnIdle
    /\ VerifierIdle /\ IndexerIdle /\ RunnerIdle
    /\ \E parts \in PathPartsPool, exists \in BOOLEAN, csv \in CsvReads :
          \E lookup \in (IF exists THEN Lookups ELSE { "none" }) :
             utils = UtilsCall(parts, exists, lookup, csv)

UtilsUnchanged == UNCHANGED << envVars, db, procVars, histVars, fnVars, verifier, indexer, runner >>

\* load_csv up to the branch on DB_PATH.exists()
LoadCsv ==
    /\ utils.pc = "call"
    /\ utils' = [utils EXCEPT !.table_name = load_csv_table_name(utils.path_parts),
                              !.pc = IF utils.db_exists THEN "db" ELSE "csv"]
    /\ UtilsUnchanged

\* load_table_from_db: its own except clause turns every exception of the
\* query into pd.DataFrame(), returned to load_csv, which returns it
load_table_from_db(lookup) == IF lookup = "table" THEN "table" ELSE "empty"

LoadTableFromDb ==
    /\ utils.pc = "db"
    /\ LET frame == load_table_from_db(utils.lookup)
       IN  utils' = IF frame = "raised"
                    THEN [utils EXCEPT !.pc = "csv"]
                    ELSE [utils EXCEPT !.df = frame, !.pc = "returned"]
    /\ UtilsUnchanged

\* the CSV fallback
ReadCsv ==
    /\ utils.pc = "csv"
    /\ utils' = [utils EXCEPT !.df = IF utils.csv = "rows" THEN "csv" ELSE "empty",
                              !.pc = "returned"]
    /\ UtilsUnchanged

SpecLoadCsv == InitLoadCsv /\ [][LoadCsv \/ LoadTableFromDb \/ ReadCsv]_vars

(***************************************************************************)
(* find_column and validate_required_columns (utils.py 100-139).  A frame  *)
(* is its list of column names and its number of rows; df.empty is true    *)
(* when either is zero.  A column name is a str, "" the empty str; an      *)
(* Optional[str] is << >> for None and << name >> for a name.              *)
(***************************************************************************)
MaxCandidates == 2
MaxFrameCols == 2
MaxFrameRows == 1

ColumnNamePool == { "", "agent", "Agent" }
Descriptions == { "Agent name", "Pick rate" }

Distinct(seq) == \A i, j \in 1..Len(seq) : i # j => seq[i] # seq[j]
Frames ==
    { [columns |-> cs, rows |-> n] :
        cs \in { c \in SeqsUpTo(ColumnNamePool, MaxFrameCols) : Distinct(c) },
        n \in 0..MaxFrameRows }

Elems(seq) == { seq[i] : i \in 1..Len(seq) }
df_empty(df) == Len(df.columns) = 0 \/ df.rows = 0

RECURSIVE FirstIn(_, _)
FirstIn(names, available_cols) ==
    IF names = << >> THEN << >>
    ELSE IF names[1] \in available_cols THEN << names[1] >>
    ELSE FirstIn(Tail(names), available_cols)

find_column(df, possible_names) ==
    IF df_empty(df) THEN << >> ELSE FirstIn(possible_names, Elems(df.columns))

\* `not find_column(...)`: None and the empty str are both falsy
Falsy(optional) == optional = << >> \/ optional = << "" >>

\* the descriptions in the order of the dict; each entry of the list is the
\* description with the names tried
RECURSIVE validate_loop(_, _, _)
validate_loop(df, required_columns, items) ==
    IF items = << >> THEN << >>
    ELSE LET possible_names == required_columns[items[1]]
             rest == validate_loop(df, required_columns, Tail(items))
         IN  IF Falsy(find_column(df, possible_names))
             THEN << [description |-> items[1], tried |-> possible_names] >> \o rest
             ELSE rest
DictOrder == << "Agent name", "Pick rate" >>
validate_required_columns(df, required_columns) ==
    validate_loop(df, required_columns, DictOrder)

InitColumns ==
    /\ ImporterIdle /\ FnIdle
    /\ VerifierIdle /\ IndexerIdle /\ RunnerIdle
    /\ \E df \in Frames, names \in SeqsUpTo(ColumnNamePool, MaxCandidates) :
        \E other \in { << >>, << "agent" >>, << "Agent", "" >> } :
          utils = [pc |-> "call", df |-> df, possible_names |-> names,
                   required_columns |-> [d \in Descriptions |->
                                           IF d = "Agent name" THEN names ELSE other],
                   found |-> << >>, missing |-> << >>]

FindColumn ==
    /\ utils.pc = "call"
    /\ utils' = [utils EXCEPT !.found = find_column(utils.df, utils.possible_names),
                              !.pc = "found"]
    /\ UtilsUnchanged

ValidateRequiredColumns ==
    /\ utils.pc = "call"
    /\ utils' = [utils EXCEPT
                   !.missing = validate_required_columns(utils.df, utils.required_columns),
                   !.pc = "validated"]
    /\ UtilsUnchanged

SpecColumns == InitColumns /\ [][FindColumn \/ ValidateRequiredColumns]_vars

(***************************************************************************)
(* The table listings: get_database_info (verify_database.py 27-65) and    *)
(* get_available_tables (utils.py 141-154), on a database the import       *)
(* commands wrote.  The database is seen through sqlite_master: the table  *)
(* of each source file with its number of rows, import_metadata, and       *)
(* sqlite_sequence, the table SQLite itself creates with the first table   *)
(* declared AUTOINCREMENT (import_metadata's id column) and keeps when     *)
(* that table is dropped; it holds one row per AUTOINCREMENT table that    *)
(* has had a row inserted.                                                 *)
(***************************************************************************)
MaxListedRows == 1

ImportMetadata == << "i","m","p","o","r","t","_","m","e","t","a","d","a","t","a" >>
SqliteSequence == << "s","q","l","i","t","e","_","s","e","q","u","e","n","c","e" >>

NoListing == [total_tables |-> -1, total_rows |-> -1, table_info |-> << >>,
              available_tables |-> << >>]
FreshDatabase ==
    [pc |-> "ready",
     tables |-> [t \in TableSlots |-> [exists |-> FALSE, rows |-> 0]],
     meta_exists |-> FALSE, sequence_exists |-> FALSE,
     listing |-> NoListing]

InitListing ==
    /\ ImporterIdle /\ FnIdle
    /\ UtilsIdle /\ IndexerIdle /\ RunnerIdle
    /\ verifier = FreshDatabase

ListingUnchanged == UNCHANGED << envVars, db, procVars, histVars, fnVars, utils, indexer, runner >>

\* an import of the source file of table t: DROP TABLE IF EXISTS, CREATE
\* TABLE, to_sql of its rows
ImportTable(t, rows) ==
    /\ verifier.pc = "ready"
    /\ verifier' = [verifier EXCEPT !.tables[t] = [exists |-> TRUE, rows |-> rows]]
    /\ ListingUnchanged

\* create_metadata_table (import_to_sqlite.py 240-277): DROP, CREATE with
\* id INTEGER PRIMARY KEY AUTOINCREMENT, one INSERT per imported table
CreateMetadataTable ==
    /\ verifier.pc = "ready"
    /\ verifier' = [verifier EXCEPT !.meta_exists = TRUE, !.sequence_exists = TRUE]
    /\ ListingUnchanged

ImportedTables(v) == { t \in TableSlots : v.tables[t].exists }
MetadataRecords(v) == IF v.meta_exists THEN Cardinality(ImportedTables(v)) ELSE 0

\* SELECT name FROM sqlite_master WHERE type='table'
sqlite_master(v) ==
    { SlotNames[t] : t \in ImportedTables(v) }
       \cup (IF v.meta_exists THEN { ImportMetadata } ELSE { })
       \cup (IF v.sequence_exists THEN { SqliteSequence } ELSE { })

\* SELECT COUNT(*) FROM table
CountRows(v, name) ==
    IF name = SqliteSequence THEN (IF MetadataRecords(v) > 0 THEN 1 ELSE 0)
    ELSE IF name = ImportMetadata THEN MetadataRecords(v)
    ELSE v.tables[Slot(name)].rows

RECURSIVE SumOver(_, _)
SumOver(f, S) ==
    IF S = { } THEN 0
    ELSE LET x == CHOOSE y \in S : TRUE IN f[x] + SumOver(f, S \ { x })

RECURSIVE SortedNames(_)
SortedNames(S) ==
    IF S = { } THEN << >>
    ELSE LET least == CHOOSE x \in S : \A y \in S \ { x } : StrLess(x, y)
         IN  << least >> \o SortedNames(S \ { least })

get_database_info(v) ==
    LET all_tables == sqlite_master(v)
        data_tables == { t \in all_tables : t # ImportMetadata }
        table_info == [t \in data_tables |-> CountRows(v, t)]
    IN  [total_tables |-> Cardinality(data_tables),
         total_rows |-> SumOver(table_info, data_tables),
         table_info |-> table_info,
         available_tables |-> << >>]

\* WHERE type='table' AND name != 'import_metadata', sorted
get_available_tables(v) ==
    SortedNames({ t \in sqlite_master(v) : t # ImportMetadata })

GetDatabaseInfo ==
    /\ verifier.pc = "ready"
    /\ verifier' = [verifier EXCEPT !.listing = get_database_info(verifier), !.pc = "info"]
    /\ ListingUnchanged

GetAvailableTables ==
    /\ verifier.pc = "ready"
    /\ verifier' = [verifier EXCEPT
                      !.listing = [NoListing EXCEPT
                                     !.available_tables = get_available_tables(verifier)],
                      !.pc = "tables"]
    /\ ListingUnchanged

NextListing ==
    \/ \E t \in TableSlots, rows \in 0..MaxListedRows : ImportTable(t, rows)
    \/ CreateMetadataTable
    \/ GetDatabaseInfo
    \/ GetAvailableTables

SpecListing == InitListing /\ [][NextListing]_vars

(***************************************************************************)
(* create_indexes (import_to_sqlite.py 279-311) and the end of run_import  *)
(* (372-384), step by step.  The database is the one run_import has at     *)
(* that point: the tables of some source files, each with the columns of   *)
(* its schema, and sqlite_sequence; raises is the set of index names whose *)
(* CREATE INDEX statement the store rejects.                               *)
(***************************************************************************)
MaxIndexFailures == 2

common_index_columns ==
    << << "t","o","u","r","n","a","m","e","n","t" >>,
       << "s","t","a","g","e" >>,
       << "m","a","t","c","h","_","t","y","p","e" >>,
       << "m","a","t","c","h","_","n","a","m","e" >>,
       << "m","a","p" >>,
       << "p","l","a","y","e","r" >>,
       << "t","e","a","m" >>,
       << "a","g","e","n","t" >>,
       << "a","g","e","n","t","s" >>,
       << "y","e","a","r" >>,
       << "d","a","t","e" >> >>
Kills == << "k","i","l","l","s" >>
ColumnSets ==
    { { << "m","a","p" >>, << "t","e","a","m" >>, Kills },
      { << "p","l","a","y","e","r" >>, << "a","g","e","n","t","s" >> },
      { << "d","a","t","e" >> } }
SequenceColumns == { << "n","a","m","e" >>, << "s","e","q" >> }

index_name(table, col) == << "i","d","x","_" >> \o table \o << "_" >> \o col

\* the tables the query of line 287 returns, each with its columns
TableLists ==
    { ts \o << SqliteSequence >> :
        ts \in { << >> } \cup { << SlotNames[f] >> : f \in FileIds }
               \cup { << SlotNames[p[1]], SlotNames[p[2]] >> :
                        p \in { q \in FileIds \X FileIds : q[1] < q[2] } } }
IndexedDatabases ==
    { [tables |-> tables, columns |-> columns] :
        tables \in TableLists,
        columns \in UNION { [(Elems(ts) \ { SqliteSequence }) -> ColumnSets] :
                              ts \in TableLists } }
ColumnsOf(ix, table) ==
    IF table = SqliteSequence THEN SequenceColumns ELSE ix.columns[table]
\* the index names create_indexes can ask for on a database
IndexNames(database) ==
    { index_name(database.tables[p[1]], common_index_columns[p[2]]) :
        p \in { q \in (DOMAIN database.tables) \X (DOMAIN common_index_columns) :
                  common_index_columns[q[2]] \in ColumnsOf(database, database.tables[q[1]]) } }

InitIndexes ==
    /\ ImporterIdle /\ FnIdle
    /\ UtilsIdle /\ VerifierIdle /\ RunnerIdle
    /\ \E database \in { d \in IndexedDatabases :
                           DOMAIN d.columns = Elems(d.tables) \ { SqliteSequence } } :
         \E raises \in { r \in SUBSET IndexNames(database) :
                           Cardinality(r) <= MaxIndexFailures } :
            indexer = [pc |-> "create_indexes", tables |-> database.tables,
                       columns |-> database.columns, raises |-> raises,
                       table |-> 0, col |-> 0, attempted |-> { }, indexes |-> { },
                       indexes_created |-> 0, committed |-> FALSE]

IndexerUnchanged == UNCHANGED << envVars, db, procVars, histVars, fnVars, utils, verifier, runner >>

\* lines 281-290: the allow-list and the list of tables
ListTables ==
    /\ indexer.pc = "create_indexes"
    /\ indexer' = [indexer EXCEPT !.table = 1, !.col = 1, !.pc = "column"]
    /\ IndexerUnchanged

\* without the inner try: the exception ends the loops in the outer except
except_inner_EndsLoop(ix) == [ix EXCEPT !.table = Len(ix.tables) + 1]
\* the inner except clause (lines 306-307): the failure is logged and the
\* loop goes on with the next column
except_inner(ix) == [ix EXCEPT !.col = ix.col + 1]

\* one pass of the inner loop (lines 299-307) for the current table and col
IndexColumn ==
    /\ indexer.pc = "column"
    /\ indexer.table <= Len(indexer.tables)
    /\ indexer.col <= Len(common_index_columns)
    /\ LET table == indexer.tables[indexer.table]
           col == common_index_columns[indexer.col]
           name == index_name(table, col)
           tried == [indexer EXCEPT !.attempted = @ \cup { << table, col >> }]
       IN  indexer' =
             IF col \notin ColumnsOf(indexer, table)
             THEN [indexer EXCEPT !.col = @ + 1]
             ELSE IF name \in indexer.raises
             THEN except_inner(tried)
             ELSE [tried EXCEPT !.indexes = @ \cup { name },
                                !.indexes_created = @ + 1,
                                !.col = @ + 1]
    /\ IndexerUnchanged

\* the inner loop is over: the next table (lines 293-296)
NextTable ==
    /\ indexer.pc = "column"
    /\ indexer.table <= Len(indexer.tables)
    /\ indexer.col > Len(common_index_columns)
    /\ indexer' = [indexer EXCEPT !.table = @ + 1, !.col = 1]
    /\ IndexerUnchanged

\* create_indexes returns; run_import commits and writes the summary
\* (lines 378-384) and ends without an exception
CommitIndexes ==
    /\ indexer.pc = "column"
    /\ indexer.table > Len(indexer.tables)
    /\ indexer' = [indexer EXCEPT !.committed = TRUE, !.pc = "done"]
    /\ IndexerUnchanged

NextIndexes == ListTables \/ IndexColumn \/ NextTable \/ CommitIndexes
SpecIndexes == InitIndexes /\ [][NextIndexes]_vars

(***************************************************************************)
(* ReliableVCTRunner (reliable_tunnel.py): the main thread, in which the   *)
(* signal handler cleanup runs, and the daemon thread monitor_services.    *)
(* A process is a number; streamlit and cloudflared are the sets of the    *)
(* live processes of each program, streamlit_process and tunnel_process    *)
(* the Popen handles (0 for None).  The threads share the object's fields  *)
(* and interleave between any two statements.                              *)
(***************************************************************************)
MaxProcs == 4

ProcIds == 1..MaxProcs

\* run (lines 261-296) up to the loop `while self.running`: both services
\* started (the tunnel may have failed), the monitor thread started
RunnerStarted(tunnel_up) ==
    [main |-> "serving", monitor |-> "loop", running |-> TRUE,
     streamlit |-> { 1 }, cloudflared |-> IF tunnel_up THEN { 2 } ELSE { },
     streamlit_process |-> 1, tunnel_process |-> 2, next |-> 3,
     late_start |-> FALSE]

InitRunner ==
    /\ ImporterIdle /\ FnIdle
    /\ UtilsIdle /\ VerifierIdle /\ IndexerIdle
    /\ \E tunnel_up \in BOOLEAN : runner = RunnerStarted(tunnel_up)

RunnerUnchanged == UNCHANGED << envVars, db, procVars, histVars, fnVars, utils, verifier, indexer >>

\* the daemon thread runs until the interpreter exits
MonitorAt(at) == runner.monitor = at /\ runner.main # "exited"

\* a service process ends by itself
ProcessEnds(p) ==
    /\ p \in runner.streamlit \cup runner.cloudflared
    /\ runner' = [runner EXCEPT !.streamlit = @ \ { p }, !.cloudflared = @ \ { p }]
    /\ RunnerUnchanged

\* monitor_services, line 185: while self.running
MonitorLoop ==
    /\ MonitorAt("loop")
    /\ runner' = [runner EXCEPT !.monitor = IF runner.running THEN "sleep" ELSE "ended"]
    /\ RunnerUnchanged

\* line 186: time.sleep(30) returns
MonitorWakes ==
    /\ MonitorAt("sleep")
    /\ runner' = [runner EXCEPT !.monitor = "check_streamlit"]
    /\ RunnerUnchanged

\* lines 189-190: test_local_connection(max_attempts=2)
MonitorChecksStreamlit ==
    /\ MonitorAt("check_streamlit")
    /\ runner' = [runner EXCEPT !.monitor = IF runner.streamlit # { }
                                            THEN "check_tunnel" ELSE "pkill_streamlit"]
    /\ RunnerUnchanged

\* start_streamlit, line 53: pkill -f streamlit
StartStreamlitPkill ==
    /\ MonitorAt("pkill_streamlit")
    /\ runner' = [runner EXCEPT !.streamlit = { }, !.monitor = "popen_streamlit"]
    /\ RunnerUnchanged

\* start_streamlit, lines 57-64: Popen, or the exception caught at line 76
StartStreamlitPopen ==
    /\ MonitorAt("popen_streamlit")
    /\ \/ /\ runner.next <= MaxProcs
          /\ runner' = [runner EXCEPT !.streamlit = @ \cup { runner.next },
                                      !.streamlit_process = runner.next,
                                      !.next = @ + 1,
                                      !.late_start = @ \/ ~runner.running,
                                      !.monitor = "check_tunnel"]
       \/ runner' = [runner EXCEPT !.monitor = "check_tunnel"]
    /\ RunnerUnchanged

\* line 197: self.tunnel_process and self.tunnel_process.poll() is not None
MonitorChecksTunnel ==
    /\ MonitorAt("check_tunnel")
    /\ runner' = [runner EXCEPT !.monitor =
                     IF runner.tunnel_process # 0
                        /\ runner.tunnel_process \notin runner.cloudflared
                     THEN "pkill_cloudflared" ELSE "loop"]
    /\ RunnerUnchanged

\* start_cloudflare_tunnel, line 96: pkill -f cloudflared
StartTunnelPkill ==
    /\ MonitorAt("pkill_cloudflared")
    /\ runner' = [runner EXCEPT !.cloudflared = { }, !.monitor = "popen_cloudflared"]
    /\ RunnerUnchanged

\* start_cloudflare_tunnel, lines 100-104: Popen, or the exception caught
StartTunnelPopen ==
    /\ MonitorAt("popen_cloudflared")
    /\ \/ /\ runner.next <= MaxProcs
          /\ runner' = [runner EXCEPT !.cloudflared = @ \cup { runner.next },
                                      !.tunnel_process = runner.next,
                                      !.next = @ + 1,
                                      !.late_start = @ \/ ~runner.running,
                                      !.monitor = "loop"]
       \/ runner' = [runner EXCEPT !.monitor = "loop"]
    /\ RunnerUnchanged

\* SIGINT or SIGTERM: cleanup starts in the main thread (lines 204-207)
Signal ==
    /\ runner.main = "serving"
    /\ runner' = [runner EXCEPT !.running = FALSE, !.main = "stop_tunnel"]
    /\ RunnerUnchanged

\* lines 209-215: terminate, wait, kill on the handle read now
StopTunnel ==
    /\ runner.main = "stop_tunnel"
    /\ runner' = [runner EXCEPT !.cloudflared = @ \ { runner.tunnel_process },
                                !.main = "stop_streamlit"]
    /\ RunnerUnchanged

\* lines 217-223
StopStreamlit ==
    /\ runner.main = "stop_streamlit"
    /\ runner' = [runner EXCEPT !.streamlit = @ \ { runner.streamlit_process },
                                !.main = "final_pkill_streamlit"]
    /\ RunnerUnchanged

\* line 226: pkill -f streamlit
FinalPkillStreamlit ==
    /\ runner.main = "final_pkill_streamlit"
    /\ runner' = [runner EXCEPT !.streamlit = { }, !.main = "final_pkill_cloudflared"]
    /\ RunnerUnchanged

\* lines 227-229: pkill -f cloudflared, "All services stopped cleanly"
FinalPkillCloudflared ==
    /\ runner.main = "final_pkill_cloudflared"
    /\ runner' = [runner EXCEPT !.cloudflared = { }, !.main = "reported"]
    /\ RunnerUnchanged

\* line 230: sys.exit(0); the daemon thread ends with the interpreter
Exit ==
    /\ runner.main = "reported"
    /\ runner' = [runner EXCEPT !.main = "exited"]
    /\ RunnerUnchanged

NextRunner ==
    \/ \E p \in ProcIds : ProcessEnds(p)
    \/ MonitorLoop \/ MonitorWakes \/ MonitorChecksStreamlit
    \/ StartStreamlitPkill \/ StartStreamlitPopen
    \/ MonitorChecksTunnel \/ StartTunnelPkill \/ StartTunnelPopen
    \/ Signal \/ StopTunnel \/ StopStreamlit
    \/ FinalPkillStreamlit \/ FinalPkillCloudflared \/ Exit

SpecRunner == InitRunner /\ [][NextRunner]_vars

(***************************************************************************)
(* Properties.                                                             *)
(***************************************************************************)
NumWindows(n) == (n + BatchSize - 1) \div BatchSize

\* the file whose import returned last
LastFile == csv_files[idx - 1]
JustReturned == pc = "next" /\ idx > 1

\* C1: every import_csv_in_batches that returns True leaves in the table
\* exactly the file's well-formed data rows, each once, in order (no
\* duplicate, no gap), also on the Latin-1 retry path and on a reload after
\* an interrupted load.
C1_LoadedExactlyOnce ==
    (cmd = "large" /\ JustReturned /\ ret[LastFile] = "true")
        => db.durable.tables[table_slot].rows = RowsFrom(1, files[LastFile].rows)

\* C2: a command that completes right after a completed run of the same
\* command leaves every table with the row count and column count it had
\* when the second run started (that is, after the first run).
C2_Idempotent ==
    (pc = "idle" /\ completed /\ same_as_prev) => Counts(db.durable) = start_counts

C2_Witness ==
    /\ pc = "idle" /\ completed /\ same_as_prev /\ cmd = "large"
    /\ \E t \in TableSlots : Len(db.durable.tables[t].rows) > BatchSize
    /\ \E f \in FileIds : ret[f] = "write_failed"

\* whether the import of file f by command c succeeds, from the file alone
Importable(f, c) ==
    /\ IF c = "full" THEN files[f].exists ELSE ListedFileExists(f)
    /\ files[f].readable /\ files[f].rows > 0
    /\ IF c = "full" THEN files[f].fail_call # 1
       ELSE files[f].fail_call \notin 1..NumWindows(files[f].rows)

\* the table name of file f in the running command
TableOf(f) == generate_table_name(IF cmd = "large" THEN ListedPath(f) ELSE paths[f], DataDir)

\* how an import that returned False is recorded
Failed == {"read_failed", "empty", "write_failed"}

\* C3: in a run that reaches its end every file of the list was attempted,
\* each file's outcome depends on that file alone (an importable file is
\* imported whatever happened to the files before it), every other file is
\* counted as failed, and the run does not raise: only a failure to open the
\* store ends a command with a non-zero status.
C3_FailureIsolated ==
    /\ (pc = "idle" /\ completed) =>
          /\ exit_status = 0
          /\ \A i \in DOMAIN csv_files :
                IF Importable(csv_files[i], cmd)
                THEN /\ ret[csv_files[i]] = "true"
                     /\ db.durable.tables[Slot(TableOf(csv_files[i]))].exists
                     /\ \E j \in DOMAIN imported : imported[j].source_file = csv_files[i]
                ELSE ret[csv_files[i]] \in Failed
          /\ successful_imports = Cardinality({ f \in FileIds : ret[f] = "true" })
          /\ failed_imports =
                Cardinality({ f \in FileIds : ret[f] \in Failed })
    /\ exit_status = 1 => ~db_openable

C3_Witness ==
    /\ pc = "idle" /\ completed
    /\ Len(csv_files) = NumFiles
    /\ ret[csv_files[1]] = "write_failed"
    /\ ret[csv_files[NumFiles]] = "true"

\* C4: when a store write fails during a file's import, the file's table is
\* back to what it was before that import began (drop, create and appended
\* rows undone) by the time the next file is processed, on the connection
\* and on disk.
C4_WriteFailureRolledBack ==
    (JustReturned /\ ret[LastFile] = "write_failed")
        => /\ db.working.tables[table_slot] = file_start
           /\ db.durable.tables[table_slot] = file_start

\* the states in which a load by import_csv_in_batches has been interrupted
\* or has failed on a write
LoadInterrupted == cmd = "large" /\ pc = "idle" /\ interrupted_at = "stream"
LoadFailed == cmd = "large" /\ JustReturned /\ ret[LastFile] = "write_failed"

C6_MissingRootExitsNonZero ==
    (cmd = "full" /\ pc = "idle" /\ interrupted_at = "none" /\ ~data_dir_exists)
        => /\ exit_status # 0
           /\ \A f \in FileIds : ret[f] = "none"
           /\ ~db.durable.meta_exists

IdentChars == LowerChars \cup DigitChars \cup {"_"}

\* C7: the sanitised and de-duplicated column names are pairwise distinct,
\* non-empty, made of lowercase letters, digits and underscore only, and do
\* not start with a digit.
C7_ColumnNamesUniqueAndValid ==
    fn_pc = "done" =>
        /\ \A i, j \in DOMAIN new_cols : i # j => new_cols[i] # new_cols[j]
        /\ \A i \in DOMAIN new_cols :
              /\ new_cols[i] # << >>
              /\ \A k \in DOMAIN new_cols[i] : new_cols[i][k] \in IdentChars
              /\ new_cols[i][1] \notin DigitChars

\* the steps of the claim, in its order
C8_Steps(raw) ==
    LET replaced  == [i \in DOMAIN raw |->
                        IF raw[i] \in LowerChars \cup UpperChars \cup DigitChars \cup {"_"}
                        THEN raw[i] ELSE "_"]
        collapsed == CollapseUnderscores(replaced)
        stripped  == Strip(collapsed, {"_"})
        prefixed  == IF stripped # << >> /\ stripped[1] \in DigitChars
                     THEN << "c","o","l","_" >> \o stripped ELSE stripped
        named     == IF prefixed = << >>
                     THEN << "u","n","n","a","m","e","d","_","c","o","l","u","m","n" >>
                     ELSE prefixed
    IN  Lower(named)

\* C8: sanitize_column_name returns, for every input, the result of: replace
\* each character outside [A-Za-z0-9_] by '_', collapse runs of '_', strip
\* '_' at both ends, prepend 'col_' before a leading digit, substitute
\* 'unnamed_column' for the empty result, lowercase; 'Match ID!' gives
\* 'match_id', '2nd Half' gives 'col_2nd_half', '' gives 'unnamed_column'.
C8_SanitizeSteps ==
    fn_pc = "done" =>
        /\ sanitized = C8_Steps(column_name)
        /\ column_name = MatchId => sanitized = << "m","a","t","c","h","_","i","d" >>
        /\ column_name = SecondHalf
              => sanitized = << "c","o","l","_","2","n","d","_","h","a","l","f" >>
        /\ column_name = << >> => sanitized = UnnamedColumn

C8_Witness ==
    /\ fn_pc = "done"
    /\ column_name = SecondHalf
    /\ sanitized = << "c","o","l","_","2","n","d","_","h","a","l","f" >>

\* the sanitised name of header i and its occurrence number among headers 1..i
SanitizedHeader(i) == sanitize_column_name(headers[i])
Occurrence(i) == Cardinality({ j \in 1..i : SanitizedHeader(j) = SanitizedHeader(i) })

\* C9: in the de-duplicated list the first occurrence of a sanitised name n
\* is n and its k-th occurrence, k >= 2, is n_(k-1); ['Team','Team'] gives
\* ['team','team_1'].
C9_DedupSuffix ==
    fn_pc = "done" =>
        /\ Len(new_cols) = Len(headers)
        /\ \A i \in DOMAIN headers :
              new_cols[i] = IF Occurrence(i) = 1 THEN SanitizedHeader(i)
                            ELSE SanitizedHeader(i) \o << "_" >> \o IntToStr(Occurrence(i) - 1)
        /\ headers = << Team, Team >>
              => new_cols = << << "t","e","a","m" >>, << "t","e","a","m","_","1" >> >>

C9_Witness ==
    /\ fn_pc = "done"
    /\ \E i \in DOMAIN headers : Occurrence(i) = 3
    /\ \E i \in DOMAIN headers : new_cols[i] = << "t","e","a","m","_","2" >>

\* the values that are neither None nor blank, and the sampled ones
IsNonNull(v) == v # NoneValue /\ \E k \in DOMAIN v : v[k] \notin Whitespace
SampledValues ==
    LET nn == SelectSeq(values, IsNonNull)
    IN  IF Len(nn) <= SampleSize THEN nn ELSE SubSeq(nn, 1, SampleSize)

\* C10: infer_column_type returns TEXT when no value is non-null and
\* non-blank; otherwise INTEGER if every sampled value parses as an integer,
\* else REAL if every sampled value parses as a float, else TEXT; and the
\* scan that stops at the first value that is neither gives the type the
\* scan of all sampled values gives.
C10_InferredType ==
    fn_pc = "done" =>
        /\ col_type =
              IF SampledValues = << >> THEN "TEXT"
              ELSE IF \A i \in DOMAIN SampledValues : ParsesAsInt(SampledValues[i])
                   THEN "INTEGER"
              ELSE IF \A i \in DOMAIN SampledValues : ParsesAsFloat(SampledValues[i])
                   THEN "REAL"
              ELSE "TEXT"
        /\ SampledValues # << >>
              => col_type = TypeOfFlags(ScanLoop(SampledValues, 1, TRUE, TRUE, FALSE))
        /\ values = << << "1" >>, << "2" >>, << "3" >> >> => col_type = "INTEGER"
        /\ values = << << "1" >>, << "2",".","5" >> >> => col_type = "REAL"
        /\ values = << << "1" >>, << "a","b","c" >> >> => col_type = "TEXT"

\* a column on which the scan stops before its last sampled value
C10_Witness ==
    /\ fn_pc = "done"
    /\ col_type = "TEXT"
    /\ Len(SampledValues) = MaxVals
    /\ ScanLoop(SampledValues, 1, TRUE, TRUE, TRUE).scanned < Len(SampledValues)

HasDecimalPoint(v) == \E k \in DOMAIN v : v[k] = "."

\* C11: in either importer a column whose sampled non-null values are all
\* numeric and of which at least one is written with a decimal point is
\* typed REAL, and INTEGER is returned only when every sampled value is an
\* integer literal.
C11_DecimalPointIsReal ==
    fn_pc \in {"done", "done_large"} =>
        /\ ( /\ SampledValues # << >>
             /\ \A i \in DOMAIN SampledValues : ParsesAsFloat(SampledValues[i])
             /\ \E i \in DOMAIN SampledValues : HasDecimalPoint(SampledValues[i]) )
              => col_type = "REAL"
        /\ col_type = "INTEGER"
              => \A i \in DOMAIN SampledValues : ParsesAsInt(SampledValues[i])

\* C12: in either importer the inferred type depends on the first 100
\* non-null values only: a column is given the type of the column made of
\* its first 100 non-null values alone, so that two columns that agree on
\* these are given the same type whatever follows.
C12_TypeDependsOnSampleOnly ==
    /\ fn_pc = "done" =>
          col_type = infer_column_type(Sampled(NonNullValues(values)))
    /\ fn_pc = "done_large" =>
          col_type = Large_infer_column_type(head(dropna(values), SampleSize))

\* the steps of the claim on the path relative to the root: the folder
\* segments and the file stem joined by '_', every character outside
\* [A-Za-z0-9_] replaced by '_', runs of '_' collapsed, '_' stripped at both
\* ends, lowercased
C13_Steps(relative_path) ==
    LET folders == SubSeq(relative_path, 1, Len(relative_path) - 1)
        name    == relative_path[Len(relative_path)]
        dot     == LastIndexOf(name, ".")
        stemmed == IF dot > 1 /\ dot < Len(name) THEN SubSeq(name, 1, dot - 1) ELSE name
        joined  == JoinUnderscore(Append(folders, stemmed))
        replaced == [i \in DOMAIN joined |->
                        IF joined[i] \in LowerChars \cup UpperChars \cup DigitChars \cup {"_"}
                        THEN joined[i] ELSE "_"]
    IN  Lower(Strip(CollapseUnderscores(replaced), {"_"}))

\* C13: generate_table_name(path) is the result of the steps above applied
\* to the path relative to the root, whatever the root is;
\* root/vct_2024/matches/overview.csv gives 'vct_2024_matches_overview'.
C13_TableNameSteps ==
    fn_pc = "done" =>
        LET relative_path == SubSeq(csv_path, Len(data_dir) + 1, Len(csv_path))
        IN  /\ generated = C13_Steps(relative_path)
            /\ relative_path = << Vct2024, Matches, Overview >>
                  => generated = << "v","c","t","_","2","0","2","4","_",
                                    "m","a","t","c","h","e","s","_",
                                    "o","v","e","r","v","i","e","w" >>

C13_Witness ==
    /\ fn_pc = "done"
    /\ csv_path = << << "r","o","o","t" >>, Vct2024, Matches, Overview >>
    /\ generated = << "v","c","t","_","2","0","2","4","_",
                      "m","a","t","c","h","e","s","_",
                      "o","v","e","r","v","i","e","w" >>

\* C14: at the end of a run the files imported successfully have pairwise
\* distinct table names, and the table of each of them exists and holds the
\* rows of that file (no file's table was replaced by another file's).
C14_DistinctTables ==
    (pc = "idle" /\ completed) =>
        /\ \A i, j \in DOMAIN imported :
              i # j => imported[i].table_name # imported[j].table_name
        /\ \A i \in DOMAIN imported :
              LET table == db.durable.tables[Slot(imported[i].table_name)]
              IN  table.exists /\ table.source = imported[i].source_file

\* the records of import_metadata in the durable store
Records == { t \in TableSlots : db.durable.meta[t].present }

\* C15: at the end of a full-import run import_metadata holds exactly one
\* record for each file imported successfully in the run and no other
\* record, and each record's row_count and column_count are the row count
\* and the number of columns of its table.
C15_FullMetadataExact ==
    (pc = "idle" /\ completed /\ cmd = "full") =>
        /\ \A f \in FileIds :
              ret[f] = "true" =>
                 Cardinality({ t \in Records : db.durable.meta[t].source_file = f }) = 1
        /\ \A t \in Records :
              /\ ret[db.durable.meta[t].source_file] = "true"
              /\ db.durable.meta[t].import_timestamp = run_no
              /\ db.durable.meta[t].row_count = Len(db.durable.tables[t].rows)
              /\ db.durable.meta[t].column_count = db.durable.tables[t].cols

\* the tables of which an import returned True in the running command
ImportedSlots == { Slot(imported[i].table_name) : i \in DOMAIN imported }

\* C16: import_metadata holds at most one record per table name (it is keyed
\* by the name), and a command of either kind that completes leaves, for
\* every table it imported successfully, the record it wrote itself, and
\* for every other table the record the table had when the command started:
\* so the record of a table is that of the most recent run that imported it.
C16_MetadataLastRunWins ==
    (pc = "idle" /\ completed) =>
        \A t \in TableSlots :
            IF t \in ImportedSlots
            THEN /\ db.durable.meta[t].present
                 /\ db.durable.meta[t].import_timestamp = run_no
            ELSE db.durable.meta[t] = start_meta[t]

\* the sample read (the whole-file read of the full import) of file f was
\* done and gave no data row
EmptySampleRead(f) ==
    /\ IF cmd = "full" THEN files[f].exists ELSE ListedFileExists(f)
    /\ files[f].readable
    /\ files[f].rows = 0

\* C17: when the import of a file whose read gives zero data rows has
\* returned, it has returned False (the file is counted as failed, it is not
\* among the imported ones), the table of its name is what it was when the
\* import started (not created, not dropped), and no record written by the
\* command names the file.
C17_EmptyFileSkipped ==
    (JustReturned /\ EmptySampleRead(LastFile)) =>
        /\ ret[LastFile] = "empty"
        /\ \A i \in DOMAIN imported : imported[i].source_file # LastFile
        /\ db.working.tables[table_slot] = file_start
        /\ db.durable.tables[table_slot] = file_start
        /\ \A t \in TableSlots :
              (db.working.meta[t].present /\ db.working.meta[t].import_timestamp = run_no)
                  => db.working.meta[t].source_file # LastFile

\* an empty file skipped while a table of its name, loaded from another file
\* earlier in the run, is in the store
C17_Witness ==
    /\ JustReturned /\ EmptySampleRead(LastFile)
    /\ ret[LastFile] = "empty"
    /\ file_start.exists /\ file_start.rows # << >>
    /\ db.durable.tables[table_slot] = file_start

\* the path under which the running command reads file f
PathRead(f) == IF cmd = "large" THEN ListedPath(f) ELSE paths[f]

\* the files the running command has to process, from the directory alone
ToProcess ==
    IF cmd = "large" THEN FileIds
    ELSE { f \in FileIds : data_dir_exists /\ files[f].exists }

\* C18: between two loads the files started so far are in strictly ascending
\* path order, each of them has returned, and nothing of them is left
\* uncommitted (no transaction is open, the working store is the durable
\* one); during a load only the last started file has not returned; a
\* command that completes has started every file the directory gives it,
\* each once, so that two runs over the same directory process the same
\* ascending list.
C18_OneAtATimeAscending ==
    /\ pc = "next" =>
          /\ \A i, j \in DOMAIN started :
                i < j => PathLess(PathRead(started[i]), PathRead(started[j]))
          /\ \A i \in DOMAIN started : ret[started[i]] # "none"
          /\ ~db.in_txn /\ db.working = db.durable
    /\ pc \in {"create", "insert", "stream"} =>
          \A i \in DOMAIN started : (ret[started[i]] = "none") = (i = Len(started))
    /\ (pc = "idle" /\ completed) =>
          /\ { started[i] : i \in DOMAIN started } = ToProcess
          /\ Len(started) = Cardinality(ToProcess)

\* a full import that has gone through data/a/b_c.csv and data/a_b/c.csv
C18_Witness ==
    /\ pc = "idle" /\ completed /\ cmd = "full" /\ directory = "other"
    /\ started = << 1, 2 >>
    /\ ret[1] = "true" /\ ret[2] = "true"

\* C19: the sample read (the whole-file read of the full import) is won by
\* UTF-8 when the text decodes as UTF-8 and by Latin-1 otherwise, and every
\* read of the file after it (each streamed window) is made in the winning
\* encoding.
C19_WinnerUsedForLaterReads ==
    /\ pc = "create" =>
          sample_encoding =
             IF cmd = "full"
             THEN (IF Decodes(CurFile, "utf-8") THEN "utf-8" ELSE "latin-1")
             ELSE (IF SampleDecodes(CurFile, "utf-8") THEN "utf-8" ELSE "latin-1")
    /\ (cmd = "large" /\ pc = "stream") => encoding = sample_encoding

\* C20: at every point of either command the rows of the current file held
\* in data frames (the sample or whole-file frame and the current window)
\* are at most one window plus the sample.
C20_MemoryBounded ==
    /\ df_len + chunk_len <= BatchSize + SampleRows
    /\ chunk_len <= BatchSize

\* C21: the table name load_csv computes for the parts of a CSV file below
\* the data directory is the name generate_table_name gives that file;
\* ['vct_2024','matches','overview.csv'] gives 'vct_2024_matches_overview'.
C21_LoadCsvSameTable ==
    fn_pc = "done_load" => generated = generate_table_name(csv_path, data_dir)

\* C22: load_csv is database-first with CSV fallback: when the database
\* file is absent, or exists but the table lookup fails, the call returns the
\* contents of the CSV file whenever that file can be read, and the empty
\* frame is returned only when neither the table nor the file can be read.
LookupFails == utils.db_exists /\ utils.lookup # "table"
C22_CsvFallback ==
    utils.pc = "returned" =>
       /\ (~utils.db_exists \/ LookupFails) /\ utils.csv = "rows" => utils.df = "csv"
       /\ utils.df = "empty" => (~utils.db_exists \/ LookupFails) /\ utils.csv # "rows"

\* C24: find_column(df, names) returns the first name of names that is a
\* column of df, and None exactly when none of them is; and
\* validate_required_columns lists a description as missing exactly when
\* none of its candidate names is a column of df.
IsColumn(name) == name \in Elems(utils.df.columns)
FirstColumnOf(names) ==
    IF \E i \in 1..Len(names) : IsColumn(names[i])
    THEN << names[CHOOSE i \in 1..Len(names) :
                     IsColumn(names[i]) /\ \A j \in 1..(i - 1) : ~IsColumn(names[j])] >>
    ELSE << >>
ListedMissing(d) == \E i \in 1..Len(utils.missing) : utils.missing[i].description = d
C24_FirstMatchingColumn ==
    /\ utils.pc = "found" => utils.found = FirstColumnOf(utils.possible_names)
    /\ utils.pc = "validated" =>
          \A d \in Descriptions :
             ListedMissing(d) <=> FirstColumnOf(utils.required_columns[d]) = << >>

\* C25: for every source path under the root directory, generate_table_name
\* returns a non-empty identifier that does not start with a digit.
C25_TableNameIsIdentifier ==
    fn_pc = "done" =>
       /\ generated # << >>
       /\ \A i \in 1..Len(generated) : generated[i] \in IdentChars
       /\ generated[1] \notin DigitChars

\* C26: the two importers derive the same schema for a source file; the
\* table name and the sanitised, de-duplicated column names come from the
\* same text in both scripts, so the schema is the same exactly when, for
\* every column of values read_csv can return, VCTDataImporter's and
\* LargeFileImporter's infer_column_type give the same type.
C26_SameInferredType ==
    /\ fn_pc = "done" /\ IsSeries(values) => col_type = Large_infer_column_type(values)
    /\ fn_pc = "done_large" => col_type = infer_column_type(dropna(values))

\* C27: for every header list the CREATE TABLE statement built by
\* create_table_schema names its columns exactly as the sanitised and
\* de-duplicated columns of the frame that is inserted, in the same order:
\* sanitize_column_name returns every name the pipeline produces unchanged.
C27_SchemaNamesFrameColumns ==
    fn_pc = "done" => create_table_schema(new_cols) = new_cols

C27_Witness ==
    /\ fn_pc = "done"
    /\ headers = << Team, << "t","e","a","m" >>, << "2","n","d" >> >>
    /\ new_cols = << << "t","e","a","m" >>, << "t","e","a","m","_","1" >>,
                     << "c","o","l","_","2","n","d" >> >>
    /\ create_table_schema(new_cols) = new_cols

\* C28: after any sequence of full-import and large-file-import runs that
\* ran to their end, runs in which some files failed part-way included,
\* every record of import_metadata names a table that exists in the store
\* and whose current row count equals the record's row_count.
C28_RecordsMatchTables ==
    (pc = "idle" /\ completed) =>
        \A t \in Records :
            /\ db.durable.tables[t].exists
            /\ db.durable.meta[t].row_count = Len(db.durable.tables[t].rows)

\* C29: get_database_info and get_available_tables return exactly the data
\* tables, that is the tables of the imported source files: never
\* import_metadata nor any other bookkeeping table, and the total table
\* count equals the number of imported source-file tables.
DataTableNames == { SlotNames[t] : t \in ImportedTables(verifier) }
C29_ExactlyDataTables ==
    /\ verifier.pc = "info" =>
          /\ DOMAIN verifier.listing.table_info = DataTableNames
          /\ verifier.listing.total_tables = Cardinality(ImportedTables(verifier))
    /\ verifier.pc = "tables" =>
          Elems(verifier.listing.available_tables) = DataTableNames

\* C23: in create_indexes a failure for one column of one table does not
\* stop the remaining allow-listed columns and tables, does not prevent the
\* final commit and does not make the run fail: the run goes on until it
\* has committed, by then an index was attempted for every allow-listed
\* column of every table and every one the store did not reject exists; and
\* an index is attempted only for a column that is in the allow-list and in
\* the table's schema.
Indexable ==
    { p \in Elems(indexer.tables) \X Elems(common_index_columns) :
        p[2] \in ColumnsOf(indexer, p[1]) }
C23_IndexFailureIsolated ==
    indexer.pc # "off" =>
       /\ indexer.attempted \subseteq Indexable
       /\ indexer.pc # "done" => ENABLED NextIndexes
       /\ indexer.pc = "done" =>
             /\ indexer.committed
             /\ indexer.attempted = Indexable
             /\ indexer.indexes =
                   { index_name(p[1], p[2]) : p \in Indexable } \ indexer.raises
             /\ indexer.indexes_created = Cardinality(indexer.indexes)

\* a run that committed after a rejected index, with an index created for a
\* later column or table
C23_Witness ==
    /\ indexer.pc = "done" /\ indexer.committed
    /\ \E i, j \in DOMAIN indexer.tables, k, l \in DOMAIN common_index_columns :
          /\ i < j \/ (i = j /\ k < l)
          /\ << indexer.tables[i], common_index_columns[k] >> \in indexer.attempted
          /\ index_name(indexer.tables[i], common_index_columns[k]) \in indexer.raises
          /\ index_name(indexer.tables[j], common_index_columns[l]) \in indexer.indexes

\* C30: for every interleaving of the monitor thread with the cleanup the
\* signal starts, once cleanup has set running to False the monitor starts
\* no new Streamlit or tunnel process, so that when cleanup reports that all
\* services are stopped no process started by the runner is running.
C30_NoStartAfterCleanup ==
    runner.main # "off" =>
       /\ ~runner.late_start
       /\ runner.main \in { "reported", "exited" } =>
             runner.streamlit = { } /\ runner.cloudflared = { }

====
